---- MODULE Spec2Model ----
(***************************************************************************)
(* Verification model of the Mermaid syntax validators:                    *)
(*   SimpleMermaidValidator   (mermaid-validator-simple.js)                *)
(*   FlexibleMermaidValidator (src/validators/mermaid-validator-flexible.js)*)
(* JavaScript strings are TLA+ strings; a character is a string of length  *)
(* one.  A regular expression literal is a syntax tree and RegExp.test is  *)
(* computed by following every way the expression can match.               *)
(***************************************************************************)
EXTENDS Integers, Sequences, FiniteSets, TLC

(***************************************************************************)
(* Characters and the String methods the validators use.                   *)
(***************************************************************************)
CharsOf(str) == { SubSeq(str, k, k) : k \in 1..Len(str) }

LowerAlphabet == "abcdefghijklmnopqrstuvwxyz"
UpperAlphabet == "ABCDEFGHIJKLMNOPQRSTUVWXYZ"
LowerChars == CharsOf(LowerAlphabet)
UpperChars == CharsOf(UpperAlphabet)
DigitChars == CharsOf("0123456789")
\* \w
WordChars == LowerChars \cup UpperChars \cup DigitChars \cup {"_"}
\* \s, and the characters String.prototype.trim removes
SpaceChars == {" ", "\t", "\n", "\r", "\f"}
\* the characters the dot does not match
LineTerminators == {"\n", "\r"}

LetterIndex(c, alphabet) == CHOOSE k \in 1..Len(alphabet) : SubSeq(alphabet, k, k) = c

ToLowerMap == [c \in UpperChars |->
                 LET k == LetterIndex(c, UpperAlphabet) IN SubSeq(LowerAlphabet, k, k)]
ToUpperMap == [c \in LowerChars |->
                 LET k == LetterIndex(c, LowerAlphabet) IN SubSeq(UpperAlphabet, k, k)]

LowerChar(c) == IF c \in UpperChars THEN ToLowerMap[c] ELSE c
UpperChar(c) == IF c \in LowerChars THEN ToUpperMap[c] ELSE c

\* String.prototype.toLowerCase, character by character
toLowerCase(str) ==
  LET lower[k \in 0..Len(str)] ==
        IF k = 0 THEN "" ELSE lower[k - 1] \o LowerChar(SubSeq(str, k, k))
  IN lower[Len(str)]

\* String.prototype.trim: from the first to the last character that is no
\* white space
trim(str) ==
  LET kept == { k \in 1..Len(str) : SubSeq(str, k, k) \notin SpaceChars } IN
  IF kept = {} THEN ""
  ELSE SubSeq(str, CHOOSE k \in kept : \A j \in kept : k <= j,
                   CHOOSE k \in kept : \A j \in kept : j <= k)

\* String.prototype.startsWith
startsWith(str, prefix) ==
  Len(str) >= Len(prefix) /\ SubSeq(str, 1, Len(prefix)) = prefix

\* String.prototype.split('\n'): the pieces between the newlines, one more
\* piece than there are newlines; a text without newline is one line (also
\* the empty text)
split(str) ==
  LET newlines == { p \in 1..Len(str) : SubSeq(str, p, p) = "\n" }
      n == Cardinality(newlines)
      \* the position of the k-th newline
      nth(k) == CHOOSE p \in newlines : Cardinality({ j \in newlines : j < p }) = k - 1
      first(k) == IF k = 1 THEN 1 ELSE nth(k - 1) + 1
      last(k) == IF k = n + 1 THEN Len(str) ELSE nth(k) - 1
  IN [k \in 1..(n + 1) |-> SubSeq(str, first(k), last(k))]

(***************************************************************************)
(* Regular expressions.                                                    *)
(***************************************************************************)
Chr(S)    == [t |-> "chr", cs |-> S]      \* one character of the class S
NotChr(S) == [t |-> "not", cs |-> S]      \* one character outside the class S
Cat(rs)   == [t |-> "cat", rs |-> rs]     \* r1 r2 ... rn
Alt(rs)   == [t |-> "alt", rs |-> rs]     \* r1|r2|...|rn
Star(r)   == [t |-> "star", r |-> r]      \* r* and r*?
Plus(r)   == [t |-> "plus", r |-> r]      \* r+ and r+?
Opt(r)    == [t |-> "opt", r |-> r]       \* r?
Bol       == [t |-> "bol"]                \* ^
Eol       == [t |-> "eol"]                \* $
Wb        == [t |-> "wb"]                 \* \b

Dot   == NotChr(LineTerminators)          \* .
Sp    == Chr(SpaceChars)                  \* \s
Wd    == Chr(WordChars)                   \* \w
Dg    == Chr(DigitChars)                  \* \d
\* [A-Za-z0-9_]
Id    == Chr(WordChars)
\* a literal, and a literal under the i flag
LitChar(c)  == Chr({c})
LitCharI(c) == Chr({LowerChar(c), UpperChar(c)})
Lit(str)  == IF Len(str) = 1 THEN LitChar(str)
             ELSE Cat([k \in 1..Len(str) |-> LitChar(SubSeq(str, k, k))])
LitI(str) == IF Len(str) = 1 THEN LitCharI(str)
             ELSE Cat([k \in 1..Len(str) |-> LitCharI(SubSeq(str, k, k))])

IsWordAt(str, p) == p >= 1 /\ p <= Len(str) /\ SubSeq(str, p, p) \in WordChars

\* a single-character expression against one character
CharMatches(r, c) == IF r.t = "chr" THEN c \in r.cs ELSE c \notin r.cs

\* the repetition of a single-character expression: from a position of P over
\* any run of characters that all match
RunEnds(r, str, P) ==
  { q \in 1..(Len(str) + 1) :
      \E p \in P : p <= q /\ \A j \in p..(q - 1) : CharMatches(r, SubSeq(str, j, j)) }


(***************************************************************************)
(* Pieces shared by the pattern tables.                                    *)
(***************************************************************************)
Ws   == Star(Sp)                          \* \s*
Ws1  == Plus(Sp)                          \* \s+
DotStar  == Star(Dot)                         \* .* and .*?
DotPlus == Plus(Dot)                         \* .+ and .+?
\* open [^close]* close
Enclosed(open, close) == Cat(<<Lit(open), Star(NotChr({close})), Lit(close)>>)
\* ^keyword\s*$ under the i flag
Keyword(word) == Cat(<<Bol, LitI(word), Ws, Eol>>)
\* ^keyword\s+(.+?)\s*$ under the i flag
KeywordArg(word) == Cat(<<Bol, LitI(word), Ws1, DotPlus, Ws, Eol>>)
\* ^keyword\s+(.*?)\s*$ under the i flag
KeywordOptArg(word) == Cat(<<Bol, LitI(word), Ws1, DotStar, Ws, Eol>>)
\* ^\s*keyword\s+(.+?)\s*$ under the i flag
IndentedKeywordArg(word) == Cat(<<Bol, Ws, LitI(word), Ws1, DotPlus, Ws, Eol>>)

\* /^(graph|flowchart)\s*(TB|TD|BT|RL|LR)?\s*$/i
graphTypes ==
  Cat(<<Bol, Alt(<<LitI("graph"), LitI("flowchart")>>), Ws,
        Opt(Alt(<<LitI("TB"), LitI("TD"), LitI("BT"), LitI("RL"), LitI("LR")>>)),
        Ws, Eol>>)

\* (->>|-->>|\-\->|-\-\->|->|-->|x|-\-x|\-\-x), the x as written in the source
sequenceArrow(x) ==
  Alt(<<Lit("->>"), Lit("-->>"), Lit("-->"), Lit("--->"), Lit("->"), Lit("-->"),
        x, Cat(<<Lit("--"), x>>), Cat(<<Lit("--"), x>>)>>)

\* (--|\.\.\.|<\|--|\*--|o--|\|\.\.\.) under the i flag
classRelationArrow ==
  Alt(<<Lit("--"), Lit("..."), Lit("<|--"), Lit("*--"), LitI("o--"), Lit("|...")>>)

\* (\|\||\{o|o\||}o|o{|\|\}|}\||\{\{), the o as written in the source
erCardinality(o) ==
  Alt(<<Lit("||"), Cat(<<Lit("{"), o>>), Cat(<<o, Lit("|")>>), Cat(<<Lit("}"), o>>),
        Cat(<<o, Lit("{")>>), Lit("|}"), Lit("}|"), Lit("{{")>>)

(***************************************************************************)
(* SimpleMermaidValidator.initializePatterns                               *)
(***************************************************************************)
SimplePatterns ==
  [ graph |->
      [ types |-> graphTypes,
        \* /^[A-Za-z0-9_]+(\[[^\]]*\]|\([^\)]*\)|\{[^}]*\}|[^:]*?:[^:]*|<[^>]*>|\*[^*]*\*)?\s*$/
        node |-> Cat(<<Bol, Plus(Id),
                       Opt(Alt(<<Enclosed("[", "]"), Enclosed("(", ")"), Enclosed("{", "}"),
                                 Cat(<<Star(NotChr({":"})), Lit(":"), Star(NotChr({":"}))>>),
                                 Enclosed("<", ">"), Enclosed("*", "*")>>)),
                       Ws, Eol>>),
        \* /^\s*[A-Za-z0-9_]+\s*(-->|---|\.\.\.>|==>|---\|>|\.\.\.\|>|\.\.\.)\s*[A-Za-z0-9_]+\s*
        \*   (\[[^\]]*\]|\([^\)]*\)|\{[^}]*\})?(\s*\|\s*.+?\s*\|)?\s*$/
        connection |->
          Cat(<<Bol, Ws, Plus(Id), Ws,
                Alt(<<Lit("-->"), Lit("---"), Lit("...>"), Lit("==>"), Lit("---|>"),
                      Lit("...|>"), Lit("...")>>),
                Ws, Plus(Id), Ws,
                Opt(Alt(<<Enclosed("[", "]"), Enclosed("(", ")"), Enclosed("{", "}")>>)),
                Opt(Cat(<<Ws, Lit("|"), Ws, DotPlus, Ws, Lit("|")>>)),
                Ws, Eol>>),
        \* /^subgraph\s+(.+)\s*$/i
        subgraph |-> KeywordArg("subgraph"),
        \* /^end\s*$/i
        endSubgraph |-> Keyword("end") ],
    sequence |->
      [ \* /^sequenceDiagram\s*$/i
        type |-> Keyword("sequenceDiagram"),
        \* /^participant\s+(.+?)\s+as\s+(.+?)\s*$/i
        participant |-> Cat(<<Bol, LitI("participant"), Ws1, DotPlus, Ws1, LitI("as"), Ws1,
                              DotPlus, Ws, Eol>>),
        \* /^\s*(.+?)\s*(->>|-->>|\-\->|-\-\->|->|-->|x|-\-x|\-\-x)\s*(.+?):\s*(.+?)\s*$/
        message |-> Cat(<<Bol, Ws, DotPlus, Ws, sequenceArrow(Lit("x")), Ws, DotPlus, Lit(":"),
                          Ws, DotPlus, Ws, Eol>>),
        \* /^note\s+(right|left|over)\s+(.+?):\s*(.*?)\s*$/i
        note |-> Cat(<<Bol, LitI("note"), Ws1,
                       Alt(<<LitI("right"), LitI("left"), LitI("over")>>), Ws1, DotPlus,
                       Lit(":"), Ws, DotStar, Ws, Eol>>),
        \* /^loop\s+(.*?)\s*$/i, /^alt\s+(.*?)\s*$/i, /^else\s+(.*?)\s*$/i, /^end\s*$/i
        loop |-> KeywordOptArg("loop"),
        alt |-> KeywordOptArg("alt"),
        else |-> KeywordOptArg("else"),
        end |-> Keyword("end") ],
    classDiagram |->
      [ \* /^classDiagram\s*$/i
        type |-> Keyword("classDiagram"),
        \* /^class\s+(\w+)(\s+<\|\-.*|\s*\{[^}]*\})?\s*$/i
        classDef |-> Cat(<<Bol, LitI("class"), Ws1, Plus(Wd),
                           Opt(Alt(<<Cat(<<Ws1, Lit("<|-"), DotStar>>),
                                     Cat(<<Ws, Enclosed("{", "}")>>)>>)),
                           Ws, Eol>>),
        \* /^\s*(\w+)\s*(--|\.\.\.|<\|--|\*--|o--|\|\.\.\.)\s*(\w+)\s*$/i
        relation |-> Cat(<<Bol, Ws, Plus(Wd), Ws, classRelationArrow, Ws, Plus(Wd), Ws, Eol>>),
        \* /^\s*[+\-#~]?\s*\w+\([^)]*\)(\s*:\s*\w+)?\s*$/
        method |-> Cat(<<Bol, Ws, Opt(Chr({"+", "-", "#", "~"})), Ws, Plus(Wd),
                         Enclosed("(", ")"),
                         Opt(Cat(<<Ws, Lit(":"), Ws, Plus(Wd)>>)), Ws, Eol>>),
        \* /^\s*[+\-#~]?\s*\w+(\s*:\s*\w+)?\s*$/
        property |-> Cat(<<Bol, Ws, Opt(Chr({"+", "-", "#", "~"})), Ws, Plus(Wd),
                           Opt(Cat(<<Ws, Lit(":"), Ws, Plus(Wd)>>)), Ws, Eol>>) ],
    stateDiagram |->
      [ \* /^stateDiagram(-v2)?\s*$/i
        type |-> Cat(<<Bol, LitI("stateDiagram"), Opt(LitI("-v2")), Ws, Eol>>),
        \* /^\s*\[?\*?\]?\s*-->\s*\w+(\s*:\s*.+?)?\s*$/i
        state |-> Cat(<<Bol, Ws, Opt(Lit("[")), Opt(Lit("*")), Opt(Lit("]")), Ws, Lit("-->"),
                        Ws, Plus(Wd), Opt(Cat(<<Ws, Lit(":"), Ws, DotPlus>>)), Ws, Eol>>),
        \* /^\s*(\w+|\[*\]?)\s*-->\s*(\w+|\[*\]?)(\s*:\s*.+?)?\s*$/i
        transition |->
          Cat(<<Bol, Ws, Alt(<<Plus(Wd), Cat(<<Star(Lit("[")), Opt(Lit("]"))>>)>>), Ws,
                Lit("-->"), Ws, Alt(<<Plus(Wd), Cat(<<Star(Lit("[")), Opt(Lit("]"))>>)>>),
                Opt(Cat(<<Ws, Lit(":"), Ws, DotPlus>>)), Ws, Eol>>),
        \* /^\s*\[\*\]\s*-->\s*\w+\s*$/i
        initial |-> Cat(<<Bol, Ws, Lit("[*]"), Ws, Lit("-->"), Ws, Plus(Wd), Ws, Eol>>),
        \* /^\s*\w+\s*-->\s*\[\*\]\s*$/i
        final |-> Cat(<<Bol, Ws, Plus(Wd), Ws, Lit("-->"), Ws, Lit("[*]"), Ws, Eol>>) ],
    erDiagram |->
      [ \* /^erDiagram\s*$/i
        type |-> Keyword("erDiagram"),
        \* /^(\w+)\s*\{\s*$/
        entity |-> Cat(<<Bol, Plus(Wd), Ws, Lit("{"), Ws, Eol>>),
        \* /^\s*(\w+)\s+(\w+)(\s+(PK|FK))?\s*$/
        attribute |-> Cat(<<Bol, Ws, Plus(Wd), Ws1, Plus(Wd),
                            Opt(Cat(<<Ws1, Alt(<<Lit("PK"), Lit("FK")>>)>>)), Ws, Eol>>),
        \* /^\s*(\w+)\s*(\|\||\{o|o\||}o|o{|\|\}|}\||\{\{)\s*(\w+)\s*:\s*(.+?)\s*$/
        relationship |-> Cat(<<Bol, Ws, Plus(Wd), Ws, erCardinality(Lit("o")), Ws, Plus(Wd),
                               Ws, Lit(":"), Ws, DotPlus, Ws, Eol>>),
        \* /^\s*\}\s*$/
        endEntity |-> Cat(<<Bol, Ws, Lit("}"), Ws, Eol>>),
        \* /^\s*(\w+)\s*(\|\||\{o|o\||}o|o{|\|\}|}\||\{\{)\s*(\w+)\s*$/
        simpleRelationship |-> Cat(<<Bol, Ws, Plus(Wd), Ws, erCardinality(Lit("o")), Ws,
                                     Plus(Wd), Ws, Eol>>) ],
    gantt |->
      [ \* /^gantt\s*$/i
        type |-> Keyword("gantt"),
        \* /^title\s+(.+?)\s*$/i, /^dateFormat\s+(.+?)\s*$/i, /^section\s+(.+?)\s*$/i
        title |-> KeywordArg("title"),
        dateFormat |-> KeywordArg("dateFormat"),
        section |-> KeywordArg("section"),
        \* /^\s*(\w+)\s*:\s*(.+?),\s*(.+?)(\s*,\s*(.+?))?\s*$/
        task |-> Cat(<<Bol, Ws, Plus(Wd), Ws, Lit(":"), Ws, DotPlus, Lit(","), Ws, DotPlus,
                       Opt(Cat(<<Ws, Lit(","), Ws, DotPlus>>)), Ws, Eol>>),
        \* /^\s*(\w+)\s*:\s*milestone,\s*(.+?)\s*$/
        milestone |-> Cat(<<Bol, Ws, Plus(Wd), Ws, Lit(":"), Ws, Lit("milestone,"), Ws, DotPlus,
                            Ws, Eol>>) ],
    journey |->
      [ \* /^journey\s*$/i
        type |-> Keyword("journey"),
        \* /^title\s+(.+?)\s*$/i, /^section\s+(.+?)\s*$/i
        title |-> KeywordArg("title"),
        section |-> KeywordArg("section"),
        \* /^\s*(.+?)\s*:\s*(\d+)\s*:\s*(.+?)\s*$/
        task |-> Cat(<<Bol, Ws, DotPlus, Ws, Lit(":"), Ws, Plus(Dg), Ws, Lit(":"), Ws, DotPlus,
                       Ws, Eol>>) ],
    pie |->
      [ \* /^pie\s*(title\s+(.+?))?\s*$/i
        type |-> Cat(<<Bol, LitI("pie"), Ws, Opt(Cat(<<LitI("title"), Ws1, DotPlus>>)), Ws, Eol>>),
        \* /^\s*"(.*?)"\s*:\s*(\d+)\s*$/
        data |-> Cat(<<Bol, Ws, Lit("\""), DotStar, Lit("\""), Ws, Lit(":"), Ws, Plus(Dg), Ws,
                       Eol>>) ],
    gitGraph |->
      [ \* /^gitGraph\s*$/i
        type |-> Keyword("gitGraph"),
        \* /^\s*commit\s*(?:type:\s*(\w+))?\s*$/i
        commit |-> Cat(<<Bol, Ws, LitI("commit"), Ws,
                         Opt(Cat(<<LitI("type:"), Ws, Plus(Wd)>>)), Ws, Eol>>),
        \* /^\s*branch\s+(.+?)\s*$/i and the like
        branch |-> IndentedKeywordArg("branch"),
        checkout |-> IndentedKeywordArg("checkout"),
        merge |-> IndentedKeywordArg("merge"),
        cherryPick |-> IndentedKeywordArg("cherry-pick") ],
    mindmap |->
      [ \* /^mindmap\s*$/i
        type |-> Keyword("mindmap"),
        \* /^\s*([\s]*)([\+\-\*])(.+?)(\(\(.*?\)\))?(\[.*?\])?(\{.*?\})?\s*$/
        node |-> Cat(<<Bol, Ws, Ws, Chr({"+", "-", "*"}), DotPlus,
                       Opt(Cat(<<Lit("(("), DotStar, Lit("))")>>)),
                       Opt(Cat(<<Lit("["), DotStar, Lit("]")>>)),
                       Opt(Cat(<<Lit("{"), DotStar, Lit("}")>>)), Ws, Eol>>) ] ]

(***************************************************************************)
(* FlexibleMermaidValidator.initializePatterns.  The flowchart entry names *)
(* its declaration rule "types"; every other entry names it "type".        *)
(***************************************************************************)
\* [A-Za-z0-9_\s\[\]\(\)\{\}<>"':|+\-\*\/\\\.,\->]
FlexibleGraphChars ==
  WordChars \cup SpaceChars \cup
  {"[", "]", "(", ")", "{", "}", "<", ">", "\"", "'", ":", "|", "+", "-", "*", "/", "\\",
   ".", ","}

FlexiblePatterns ==
  [ graph |->
      [ types |-> graphTypes,
        \* /^\s*[A-Za-z0-9_\s\[\]\(\)\{\}<>"':|+\-\*\/\\\.,\->]+\s*$/
        validLine |-> Cat(<<Bol, Ws, Plus(Chr(FlexibleGraphChars)), Ws, Eol>>),
        \* /^subgraph/
        subgraph |-> Cat(<<Bol, Lit("subgraph")>>),
        \* /^end\s*$/
        end |-> Cat(<<Bol, Lit("end"), Ws, Eol>>) ],
    sequence |->
      [ type |-> Keyword("sequenceDiagram"),
        \* /^\s*(participant|loop|alt|else|end|note|actor)\b.*$
        \*  |^\s*[A-Za-z0-9_]+\s*(->>|-->>|\-\->|-\-\->|->|-->|x|-\-x|\-\-x)\s*[A-Za-z0-9_]+.*$/i
        validLine |->
          Alt(<<Cat(<<Bol, Ws,
                      Alt(<<LitI("participant"), LitI("loop"), LitI("alt"), LitI("else"),
                            LitI("end"), LitI("note"), LitI("actor")>>), Wb, DotStar, Eol>>),
                Cat(<<Bol, Ws, Plus(Id), Ws, sequenceArrow(LitI("x")), Ws, Plus(Id), DotStar,
                      Eol>>)>>) ],
    classDiagram |->
      [ type |-> Keyword("classDiagram"),
        \* /^\s*(class|interface|enum)\b.*$
        \*  |^\s*[A-Za-z0-9_]+\s*(--|\.\.\.|<\|--|\*--|o--|\|\.\.\.)\s*[A-Za-z0-9_]+.*$
        \*  |^\s*[+\-#~]?\s*[A-Za-z0-9_]+(\(\))?\s*[:{].*$/i
        validLine |->
          Alt(<<Cat(<<Bol, Ws, Alt(<<LitI("class"), LitI("interface"), LitI("enum")>>), Wb,
                      DotStar, Eol>>),
                Cat(<<Bol, Ws, Plus(Id), Ws, classRelationArrow, Ws, Plus(Id), DotStar, Eol>>),
                Cat(<<Bol, Ws, Opt(Chr({"+", "-", "#", "~"})), Ws, Plus(Id), Opt(Lit("()")),
                      Ws, Chr({":", "{"}), DotStar, Eol>>)>>) ],
    stateDiagram |->
      [ type |-> Cat(<<Bol, LitI("stateDiagram"), Opt(LitI("-v2")), Ws, Eol>>),
        \* /^\s*\[*\]*\s*-->\s*\w+.*$|^\s*\w+\s*-->\s*\[*\]*.*$
        \*  |^\s*\[\*\]\s*-->\s*\w+.*$|^\s*\w+\s*-->\s*\[\*\].*$/i
        validLine |->
          Alt(<<Cat(<<Bol, Ws, Star(Lit("[")), Star(Lit("]")), Ws, Lit("-->"), Ws, Plus(Wd),
                      DotStar, Eol>>),
                Cat(<<Bol, Ws, Plus(Wd), Ws, Lit("-->"), Ws, Star(Lit("[")), Star(Lit("]")),
                      DotStar, Eol>>),
                Cat(<<Bol, Ws, Lit("[*]"), Ws, Lit("-->"), Ws, Plus(Wd), DotStar, Eol>>),
                Cat(<<Bol, Ws, Plus(Wd), Ws, Lit("-->"), Ws, Lit("[*]"), DotStar, Eol>>)>>) ],
    erDiagram |->
      [ type |-> Keyword("erDiagram"),
        \* /^\s*\w+\s*\{.*$|^\s*\w+\s*:\s*\w+.*$
        \*  |^\s*\w+\s*(\|\||\{o|o\||}o|o{|\|\}|}\||\{\{)\s*\w+.*$|^\s*\}\s*$/i
        validLine |->
          Alt(<<Cat(<<Bol, Ws, Plus(Wd), Ws, Lit("{"), DotStar, Eol>>),
                Cat(<<Bol, Ws, Plus(Wd), Ws, Lit(":"), Ws, Plus(Wd), DotStar, Eol>>),
                Cat(<<Bol, Ws, Plus(Wd), Ws, erCardinality(LitI("o")), Ws, Plus(Wd), DotStar,
                      Eol>>),
                Cat(<<Bol, Ws, Lit("}"), Ws, Eol>>)>>) ],
    gantt |->
      [ type |-> Keyword("gantt"),
        \* /^\s*(title|dateFormat|section)\b.*$|^\s*\w+\s*:\s*.*$/i
        validLine |->
          Alt(<<Cat(<<Bol, Ws, Alt(<<LitI("title"), LitI("dateFormat"), LitI("section")>>),
                      Wb, DotStar, Eol>>),
                Cat(<<Bol, Ws, Plus(Wd), Ws, Lit(":"), Ws, DotStar, Eol>>)>>) ],
    journey |->
      [ type |-> Keyword("journey"),
        \* /^\s*(title|section)\b.*$|^\s*[^:]+:\s*\d+\s*:\s*\w+.*$/i
        validLine |->
          Alt(<<Cat(<<Bol, Ws, Alt(<<LitI("title"), LitI("section")>>), Wb, DotStar, Eol>>),
                Cat(<<Bol, Ws, Plus(NotChr({":"})), Lit(":"), Ws, Plus(Dg), Ws, Lit(":"), Ws,
                      Plus(Wd), DotStar, Eol>>)>>) ],
    pie |->
      [ \* /^pie\s*(title\s+.+)?\s*$/i
        type |-> Cat(<<Bol, LitI("pie"), Ws, Opt(Cat(<<LitI("title"), Ws1, DotPlus>>)), Ws, Eol>>),
        \* /^\s*"[^"]+"\s*:\s*\d+\s*$/i
        validLine |-> Cat(<<Bol, Ws, Lit("\""), Plus(NotChr({"\""})), Lit("\""), Ws, Lit(":"),
                            Ws, Plus(Dg), Ws, Eol>>) ],
    gitGraph |->
      [ type |-> Keyword("gitGraph"),
        \* /^\s*(commit|branch|checkout|merge|cherry-pick)\b.*$/i
        validLine |->
          Cat(<<Bol, Ws,
                Alt(<<LitI("commit"), LitI("branch"), LitI("checkout"), LitI("merge"),
                      LitI("cherry-pick")>>), Wb, DotStar, Eol>>) ],
    mindmap |->
      [ type |-> Keyword("mindmap"),
        \* /^\s*[\s]*[\+\-\*].*$/i
        validLine |-> Cat(<<Bol, Ws, Ws, Chr({"+", "-", "*"}), DotStar, Eol>>) ] ]

(***************************************************************************)
(* JavaScript values: the argument of validateSyntax can be any value, and *)
(* the error fields of a result are a string, a number or null.            *)
(***************************************************************************)
Null      == [t |-> "null"]
Undefined == [t |-> "undefined"]
Str(s)    == [t |-> "string", s |-> s]
Num(n)    == [t |-> "number", n |-> n]
EmptyObject == [t |-> "object"]
EmptyArray  == [t |-> "array"]

\* typeof v
typeOf(v) ==
  CASE v.t = "string"    -> "string"
    [] v.t = "number"    -> "number"
    [] v.t = "undefined" -> "undefined"
    [] OTHER             -> "object"

\* a test for null and undefined only (diagramCode == null)
falsyNullish(v) == v.t \in {"null", "undefined"}

\* a test that also turns away the strings that hold white space only
falsyOrBlank(v) ==
  \/ v.t \in {"null", "undefined"}
  \/ v.t = "string" /\ trim(v.s) = ""
  \/ v.t = "number" /\ v.n = 0

\* !v
falsy(v) ==
  \/ v.t \in {"null", "undefined"}
  \/ v.t = "string" /\ v.s = ""
  \/ v.t = "number" /\ v.n = 0

\* what a throw statement or a failing property access leaves instead of a value
Thrown(message) == [thrown |-> TRUE, message |-> message]
isThrown(r) == "thrown" \in DOMAIN r

\* the object a dialect validator returns after a scan without rejection
Accepted ==
  [isValid |-> TRUE, error |-> Null, type |-> Null, line |-> Null, suggestion |-> Null]

\* a rejection that leaves the validity flag set
RejectedAsValid(error, type, line, suggestion) ==
  [isValid |-> TRUE, error |-> Str(error), type |-> Str(type), line |-> Num(line),
   suggestion |-> Str(suggestion)]

Rejected(error, type, line, suggestion) ==
  [isValid |-> FALSE, error |-> Str(error), type |-> Str(type), line |-> Num(line),
   suggestion |-> Str(suggestion)]

\* a filter that drops the blank lines only
meaningfulBlankOnly(line) == trim(line) # ""

\* lines.filter(line => line.trim() && !line.trim().startsWith('%%'))
meaningful(line) == trim(line) # "" /\ ~startsWith(trim(line), "%%")

RECURSIVE filterMeaningful(_, _)
filterMeaningful(lines, i) ==
  IF i > Len(lines) THEN << >>
  ELSE (IF meaningful(lines[i]) THEN << lines[i] >> ELSE << >>)
         \o filterMeaningful(lines, i + 1)

\* a count of all the lines of the text
countElementsAll(lines) == Len(lines)

\* countElements, the same in both validators
countElements(lines) == Len(filterMeaningful(lines, 1))

(***************************************************************************)
(* Bounds, and the values the callers pass.                                *)
(***************************************************************************)
\* lines of a generated text
MaxLines == 3
\* Date.now() - startTime, in milliseconds
MaxElapsed == 1
\* elements of the array passed to validateBatch
MaxBatch == 2
\* calls served by one validator instance
MaxCalls == 3

\* lines.join('\n')
join(lines) ==
  LET joined[k \in 1..Len(lines)] ==
        IF k = 1 THEN lines[1] ELSE joined[k - 1] \o "\n" \o lines[k]
  IN joined[Len(lines)]

\* per dialect: a declaration line, lines its rules accept, a line they
\* reject, and a comment or a blank line
LinePools ==
  { {"graph TD", "  A --> B", "end", "A = B", "%% c"},
    {"sequenceDiagram", "A->>B: hi", "B-:A: x", "  "},
    {"classDiagram", "class A", "A -> B", "%% c"},
    {"stateDiagram-v2", "[*] --> A", "A -> B", ""},
    {"erDiagram", "A || B", ";;", "%% c"},
    {"gantt", "title T", "T a", " "},
    {"journey", "A: 5: U", "A: 5", "%% c"},
    {"pie title P", "pie", "\"a\" : 1", "bad", "%% c"},
    {"GitGraph", "commit", "foo", ""},
    {"mindmap", "+ a", "Syntax", "%% c"} }

GeneratedTexts ==
  { join(ls) : ls \in UNION { [1..k -> pool] : k \in 1..MaxLines, pool \in LinePools } }

\* testDiagrams.valid['Simple Flowchart'], the first scenario of the specification
SimpleFlowchart ==
  "graph TD\n    A[Start] --> B{Decision}\n    B -->|Yes| C[Process]\n    B -->|No| D[End]\n    C --> D"

\* the other texts of the test suite and of the documented scenarios
SuiteTexts ==
  { SimpleFlowchart,
    "sequenceDiagram\n    participant A as Alice\n    A->>B: Hello Bob!",
    "stateDiagram-v2\n    [*] --> Still\n    Still --> [*]",
    "pie title Pets in 2024\n    \"Dogs\" : 386\n    \"Cats\" : 85",
    "pie title Pets",
    "pie title Pets\n    \"Dogs\" : 386",
    "sequenceDiagram\n    A->>B: Hello",
    "A --> B\n    B --> C",
    "graph TD\n    A[Start] -> B[End]",
    "graph TD\n    A[Start] --> B[End]\n    invalidCommand xyz",
    "sequenceDiagram\n    A->>B: Hello\n    B-:A: Broken arrow",
    "graph TD\n    A --> B" }

\* lines of a text before comment lines are inserted into it
MaxCommented == 2

\* lines whose trimmed content starts with the comment marker
CommentLines == { "%% c", "  %%" }

\* lines.splice(k, 0, line) and lines.splice(k - 1, 1), as new arrays
insertLine(lines, k, line) ==
  SubSeq(lines, 1, k) \o << line >> \o SubSeq(lines, k + 1, Len(lines))

removeLine(lines, k) == SubSeq(lines, 1, k - 1) \o SubSeq(lines, k + 1, Len(lines))

\* the generated texts of at most MaxCommented lines and the empty text,
\* with one comment line inserted at any position
CommentedTexts ==
  LET bases == { << "" >> } \cup
                 UNION { [1..k -> pool] : k \in 1..MaxCommented, pool \in LinePools }
  IN UNION { { join(insertLine(ls, k, line)) : k \in 0..Len(ls), line \in CommentLines } :
               ls \in bases }

\* the type keywords of README.md, 'Supported Diagram Types'
ReadmeTypes ==
  { "graph", "flowchart", "sequenceDiagram", "classDiagram", "stateDiagram",
    "erDiagram", "gantt", "journey", "pie", "gitgraph", "mindmap", "timeline",
    "c4", "sankey", "block", "architecture" }

\* README.md, the diagrams of the batch validation example
ReadmeBatch ==
  << "graph TD\n    A --> B", "sequenceDiagram\n    A->>B: Test", "invalid diagram code" >>

ReadmeTexts == ReadmeTypes \cup { ReadmeBatch[k] : k \in 1..Len(ReadmeBatch) }

\* the lines of a flowchart that open and close a subgraph, and a connection
MarkerLines == { "subgraph S", "  end", "  A --> B" }

\* a flowchart declaration followed by up to MaxLines of these lines
MarkerTexts ==
  { join(<< "graph TD" >> \o ls) : ls \in UNION { [1..k -> MarkerLines] : k \in 1..MaxLines } }

NonStrings == { Null, Undefined, Num(0), Num(42), EmptyObject, EmptyArray }

\* the arguments of the calls that are examined one by one
ScanInputs ==
  { Str(text) : text \in GeneratedTexts \cup SuiteTexts \cup CommentedTexts \cup ReadmeTexts
                           \cup MarkerTexts }
    \cup { Str("") } \cup NonStrings

\* the arguments of the calls made one after the other on one instance
CallInputs ==
  { Str("graph TD\nA --> B"), Str("pie title P"), Str("pie\n\"a\" : 1"),
    Str("A --> B\nB --> C"), Str("gantt\nT a"), Str(" \n%% c"), Str(SimpleFlowchart),
    Str("") } \cup NonStrings

\* the elements of the arrays passed to validateBatch
BatchInputs == { Str("pie\n\"a\" : 1"), Str("gantt\nT a"), Str(""), Null }

BatchArrays == UNION { [1..k -> BatchInputs] : k \in 0..MaxBatch }

(***************************************************************************)
(* The regular expressions of an instance: the constructor compiles the    *)
(* pattern table once into this.patterns, and every later test reads it.   *)
(* A compiled expression is kept as its verdicts on the lines that occur   *)
(* in the values above; test is not defined on any other string.           *)
(***************************************************************************)
Simple   == "SimpleMermaidValidator"
Flexible == "FlexibleMermaidValidator"
Classes  == {Simple, Flexible}

\* this.patterns of an instance of class c
patternsOf(c) == IF c = Simple THEN SimplePatterns ELSE FlexiblePatterns

\* the strings that occur as arguments, and their lines as the validators
\* test them: trimmed, and trimmed and lower-cased
KnownTexts ==
  { v.s : v \in { w \in ScanInputs \cup CallInputs \cup BatchInputs : w.t = "string" } }

LinesOf(text) == { split(text)[k] : k \in 1..Len(split(text)) }

KnownLines ==
  UNION { { trim(line), toLowerCase(trim(line)) } : line \in UNION { LinesOf(text) : text \in KnownTexts } }

PatternKeys ==
  UNION { { <<c, dialect, name>> : name \in DOMAIN patternsOf(c)[dialect] } :
            c \in Classes, dialect \in DOMAIN SimplePatterns }

\* the expressions of the two tables and the expressions they are built from
\* (RxDepth bounds how deep an expression is nested)
RxDepth == 8

Children(r) ==
  CASE r.t \in {"cat", "alt"} -> { r.rs[k] : k \in 1..Len(r.rs) }
    [] r.t \in {"star", "plus", "opt"} -> { r.r }
    [] OTHER -> {}

Expressions ==
  LET grown[d \in 0..RxDepth] ==
        IF d = 0 THEN { patternsOf(key[1])[key[2]][key[3]] : key \in PatternKeys }
        ELSE LET before == grown[d - 1] IN before \cup UNION { Children(r) : r \in before }
  IN grown[RxDepth]

\* Positions are 1..Len(str)+1; position p stands before character p.
\* MatchEnds[r, str, P]: the positions where a match of r can end when it
\* starts at some position of P.
MatchEnds[r \in Expressions, str \in STRING, P \in SUBSET Nat] ==
  CASE r.t \in {"chr", "not"} ->
         { p + 1 : p \in { q \in P : q <= Len(str) /\ CharMatches(r, SubSeq(str, q, q)) } }
    [] r.t = "cat"  ->
         LET after[k \in 0..Len(r.rs)] ==
               IF k = 0 THEN P ELSE MatchEnds[r.rs[k], str, after[k - 1]]
         IN after[Len(r.rs)]
    [] r.t = "alt"  -> UNION { MatchEnds[r.rs[k], str, P] : k \in 1..Len(r.rs) }
    [] r.t = "opt"  -> P \cup MatchEnds[r.r, str, P]
    [] r.t \in {"star", "plus"} ->
         LET start == IF r.t = "star" THEN P ELSE MatchEnds[r.r, str, P]
             again[n \in 0..(Len(str) + 1)] ==
               IF n = 0 THEN start
               ELSE LET before == again[n - 1] IN before \cup MatchEnds[r.r, str, before]
         IN IF r.r.t \in {"chr", "not"} THEN RunEnds(r.r, str, start)
            ELSE again[Len(str) + 1]
    [] r.t = "bol"  -> { p \in P : p = 1 }
    [] r.t = "eol"  -> { p \in P : p = Len(str) + 1 }
    [] r.t = "wb"   -> { p \in P : IsWordAt(str, p - 1) # IsWordAt(str, p) }

\* whether r matches somewhere in str: a match may start at any position
matches(r, str) == MatchEnds[r, str, 1..(Len(str) + 1)] # {}

\* new RegExp(...): a compiled expression stands for the lines it matches,
\* among the lines the validators come to test
compile(r) == { line \in KnownLines : matches(r, line) }

\* this.initializePatterns() of either class
initializePatterns ==
  [c \in Classes |->
    [dialect \in DOMAIN patternsOf(c) |->
      [name \in DOMAIN patternsOf(c)[dialect] |-> compile(patternsOf(c)[dialect][name])]]]

VARIABLE patterns   \* this.patterns

\* this.patterns[dialect][name].test(str)
test(dialect, name, str) ==
  CASE str \in KnownLines -> str \in patterns[dialect][name]

(***************************************************************************)
(* detectDiagramType: the two validators have the same text; each tests    *)
(* the patterns of its own instance.                                       *)
(***************************************************************************)
\* a detection that answers with the keyword of the declaration
detectDiagramTypeDeclaredName(lines) ==
  LET nonEmptyLines == filterMeaningful(lines, 1) IN
  IF Len(nonEmptyLines) = 0 THEN "unknown"
  ELSE LET firstLine == toLowerCase(trim(nonEmptyLines[1])) IN
       IF test("graph", "types", firstLine) THEN "graph"
       ELSE IF test("sequence", "type", firstLine) THEN "sequenceDiagram"
       ELSE IF test("classDiagram", "type", firstLine) THEN "classDiagram"
       ELSE IF test("stateDiagram", "type", firstLine) THEN "stateDiagram"
       ELSE IF test("erDiagram", "type", firstLine) THEN "erDiagram"
       ELSE IF test("gantt", "type", firstLine) THEN "gantt"
       ELSE IF test("journey", "type", firstLine) THEN "journey"
       ELSE IF test("pie", "type", firstLine) THEN "pie"
       ELSE IF test("gitGraph", "type", firstLine) THEN "gitGraph"
       ELSE IF test("mindmap", "type", firstLine) THEN "mindmap"
       ELSE "unknown"

\* a detection that reads the first line of the text, whatever it holds
detectDiagramTypeFirstRawLine(lines) ==
  LET firstLine == toLowerCase(trim(lines[1])) IN
  IF test("graph", "types", firstLine) THEN "graph"
  ELSE IF test("sequence", "type", firstLine) THEN "sequence"
  ELSE IF test("classDiagram", "type", firstLine) THEN "classDiagram"
  ELSE IF test("stateDiagram", "type", firstLine) THEN "stateDiagram"
  ELSE IF test("erDiagram", "type", firstLine) THEN "erDiagram"
  ELSE IF test("gantt", "type", firstLine) THEN "gantt"
  ELSE IF test("journey", "type", firstLine) THEN "journey"
  ELSE IF test("pie", "type", firstLine) THEN "pie"
  ELSE IF test("gitGraph", "type", firstLine) THEN "gitGraph"
  ELSE IF test("mindmap", "type", firstLine) THEN "mindmap"
  ELSE "unknown"

detectDiagramType(lines) ==
  LET nonEmptyLines == filterMeaningful(lines, 1) IN
  IF Len(nonEmptyLines) = 0 THEN "unknown"
  ELSE LET firstLine == toLowerCase(trim(nonEmptyLines[1])) IN
       IF test("graph", "types", firstLine) THEN "graph"
       ELSE IF test("sequence", "type", firstLine) THEN "sequence"
       ELSE IF test("classDiagram", "type", firstLine) THEN "classDiagram"
       ELSE IF test("stateDiagram", "type", firstLine) THEN "stateDiagram"
       ELSE IF test("erDiagram", "type", firstLine) THEN "erDiagram"
       ELSE IF test("gantt", "type", firstLine) THEN "gantt"
       ELSE IF test("journey", "type", firstLine) THEN "journey"
       ELSE IF test("pie", "type", firstLine) THEN "pie"
       ELSE IF test("gitGraph", "type", firstLine) THEN "gitGraph"
       ELSE IF test("mindmap", "type", firstLine) THEN "mindmap"
       ELSE "unknown"

(***************************************************************************)
(* SimpleMermaidValidator: the ten dialect validators.  They share one     *)
(* loop; what differs is the declaration rule, the line-shape rules and    *)
(* the texts of the messages.                                              *)
(***************************************************************************)
SimpleTexts ==
  [ graph |->
      [ invalid |-> "Invalid graph syntax: ",
        hint |-> "Check graph syntax. Valid formats: A[Text], A --> B, subgraph Title",
        missing |-> "Missing graph type declaration",
        missingHint |-> "Add \"graph TB\" or \"graph TD\" at the beginning" ],
    sequence |->
      [ invalid |-> "Invalid sequence diagram syntax: ",
        hint |-> "Check sequence diagram syntax. Valid formats: A->>B: Message, participant A as Alice",
        missing |-> "Missing sequence diagram declaration",
        missingHint |-> "Add \"sequenceDiagram\" at the beginning" ],
    classDiagram |->
      [ invalid |-> "Invalid class diagram syntax: ",
        hint |-> "Check class diagram syntax. Valid formats: class ClassName, A --> B",
        missing |-> "Missing class diagram declaration",
        missingHint |-> "Add \"classDiagram\" at the beginning" ],
    stateDiagram |->
      [ invalid |-> "Invalid state diagram syntax: ",
        hint |-> "Check state diagram syntax. Valid formats: [*] --> State, State1 --> State2",
        missing |-> "Missing state diagram declaration",
        missingHint |-> "Add \"stateDiagram\" or \"stateDiagram-v2\" at the beginning" ],
    erDiagram |->
      [ invalid |-> "Invalid ER diagram syntax: ",
        hint |-> "Check ER diagram syntax. Valid formats: ENTITY { }, ENTITY ||--o{ ENTITY : relationship",
        missing |-> "Missing ER diagram declaration",
        missingHint |-> "Add \"erDiagram\" at the beginning" ],
    gantt |->
      [ invalid |-> "Invalid Gantt chart syntax: ",
        hint |-> "Check Gantt chart syntax. Valid formats: title Text, section Name, task : id, date, duration",
        missing |-> "Missing Gantt chart declaration",
        missingHint |-> "Add \"gantt\" at the beginning" ],
    journey |->
      [ invalid |-> "Invalid journey diagram syntax: ",
        hint |-> "Check journey diagram syntax. Valid formats: title Text, section Name, Task: score: User",
        missing |-> "Missing journey diagram declaration",
        missingHint |-> "Add \"journey\" at the beginning" ],
    pie |->
      [ invalid |-> "Invalid pie chart syntax: ",
        hint |-> "Check pie chart syntax. Valid formats: \"Label\" : value",
        missing |-> "Missing pie chart declaration",
        missingHint |-> "Add \"pie\" or \"pie title Text\" at the beginning" ],
    gitGraph |->
      [ invalid |-> "Invalid Git graph syntax: ",
        hint |-> "Check Git graph syntax. Valid formats: commit, branch name, checkout name, merge name",
        missing |-> "Missing Git graph declaration",
        missingHint |-> "Add \"gitGraph\" at the beginning" ],
    mindmap |->
      [ invalid |-> "Invalid mind map syntax: ",
        hint |-> "Check mind map syntax. Use indentation and +, -, or * for hierarchy",
        missing |-> "Missing mind map declaration",
        missingHint |-> "Add \"mindmap\" at the beginning" ] ]

\* the first test of a loop body: the declaration rule of the dialect
SimpleDeclaration(dialect, line) ==
  IF dialect = "graph" THEN test("graph", "types", line)
  ELSE test(dialect, "type", line)

\* this.patterns[dialect][name].test(line) for some name of the list
SimpleAnyOf(dialect, names, line) == \E name \in names : test(dialect, name, line)

\* the tests that follow the declaration test and end in "continue"
SimpleLineShape(dialect, line) ==
  CASE dialect = "graph" ->
         SimpleAnyOf(dialect, {"subgraph", "endSubgraph", "node", "connection"}, line)
    [] dialect = "sequence" ->
         SimpleAnyOf(dialect, {"participant", "message", "note", "loop", "alt", "else", "end"},
                     line)
    [] dialect = "classDiagram" ->
         SimpleAnyOf(dialect, {"classDef", "relation", "method", "property"}, line)
    [] dialect = "stateDiagram" ->
         SimpleAnyOf(dialect, {"state", "transition", "initial", "final"}, line)
    [] dialect = "erDiagram" ->
         SimpleAnyOf(dialect, {"entity", "attribute", "relationship", "simpleRelationship",
                               "endEntity"}, line)
    [] dialect = "gantt" ->
         SimpleAnyOf(dialect, {"title", "dateFormat", "section", "task", "milestone"}, line)
    [] dialect = "journey" -> SimpleAnyOf(dialect, {"title", "section", "task"}, line)
    [] dialect = "pie" -> test("pie", "data", line)
    [] dialect = "gitGraph" ->
         SimpleAnyOf(dialect, {"commit", "branch", "checkout", "merge", "cherryPick"}, line)
    [] dialect = "mindmap" -> test("mindmap", "node", line)

\* what follows the loop of a dialect validator
SimpleAfterScan(dialect, hasType, hasData) ==
  IF ~hasType
  THEN Rejected(SimpleTexts[dialect].missing, "no_type", 1, SimpleTexts[dialect].missingHint)
  ELSE IF dialect = "pie" /\ ~hasData
       THEN Rejected("No data found in pie chart", "no_data", 2,
                     "Add data in format: \"Label\" : value")
       ELSE Accepted

\* the return inside the loop with the loop index as the line number
SimpleInvalidLineZeroBased(dialect, line, i) ==
  Rejected(SimpleTexts[dialect].invalid \o "\"" \o line \o "\"", "syntax", i,
           SimpleTexts[dialect].hint)

\* "If we get here, line doesn't match any pattern": the return inside the loop
SimpleInvalidLine(dialect, line, i) ==
  Rejected(SimpleTexts[dialect].invalid \o "\"" \o line \o "\"", "syntax", i + 1,
           SimpleTexts[dialect].hint)

\* for (let i = 0; i < lines.length; i++) { ... } and the statements after it;
\* hasData is the second flag of validatePie
RECURSIVE SimpleScan(_, _, _, _, _)
SimpleScan(dialect, lines, i, hasType, hasData) ==
  IF ~(i < Len(lines)) THEN SimpleAfterScan(dialect, hasType, hasData)
  ELSE LET line == trim(lines[i + 1]) IN
       IF line = "" \/ startsWith(line, "%%")
       THEN SimpleScan(dialect, lines, i + 1, hasType, hasData)
       ELSE IF SimpleDeclaration(dialect, line)
       THEN SimpleScan(dialect, lines, i + 1, TRUE, hasData)
       ELSE IF SimpleLineShape(dialect, line)
       THEN SimpleScan(dialect, lines, i + 1, hasType, hasData \/ dialect = "pie")
       ELSE SimpleInvalidLine(dialect, line, i)

\* a flowchart validator that counts the subgraphs opened and closed
validateGraphBalanced(lines) ==
  LET opened == { k \in 1..Len(lines) : test("graph", "subgraph", trim(lines[k])) }
      closed == { k \in 1..Len(lines) : test("graph", "endSubgraph", trim(lines[k])) }
  IN IF Cardinality(opened) # Cardinality(closed)
     THEN Rejected("Unbalanced subgraph", "syntax", 1, "Close every subgraph with end")
     ELSE SimpleScan("graph", lines, 0, FALSE, FALSE)

validateGraph(lines)        == SimpleScan("graph", lines, 0, FALSE, FALSE)
validateSequence(lines)     == SimpleScan("sequence", lines, 0, FALSE, FALSE)
validateClassDiagram(lines) == SimpleScan("classDiagram", lines, 0, FALSE, FALSE)
validateStateDiagram(lines) == SimpleScan("stateDiagram", lines, 0, FALSE, FALSE)
validateERDiagram(lines)    == SimpleScan("erDiagram", lines, 0, FALSE, FALSE)
validateGantt(lines)        == SimpleScan("gantt", lines, 0, FALSE, FALSE)
validateJourney(lines)      == SimpleScan("journey", lines, 0, FALSE, FALSE)
validatePie(lines)          == SimpleScan("pie", lines, 0, FALSE, FALSE)
validateGitGraph(lines)     == SimpleScan("gitGraph", lines, 0, FALSE, FALSE)
validateMindmap(lines)      == SimpleScan("mindmap", lines, 0, FALSE, FALSE)

\* SimpleMermaidValidator.validateByType
SimpleValidateByType(diagramType, lines) ==
  CASE diagramType = "graph"        -> validateGraph(lines)
    [] diagramType = "sequence"     -> validateSequence(lines)
    [] diagramType = "classDiagram" -> validateClassDiagram(lines)
    [] diagramType = "stateDiagram" -> validateStateDiagram(lines)
    [] diagramType = "erDiagram"    -> validateERDiagram(lines)
    [] diagramType = "gantt"        -> validateGantt(lines)
    [] diagramType = "journey"      -> validateJourney(lines)
    [] diagramType = "pie"          -> validatePie(lines)
    [] diagramType = "gitGraph"     -> validateGitGraph(lines)
    [] diagramType = "mindmap"      -> validateMindmap(lines)
    [] OTHER -> Rejected("Unsupported diagram type: " \o diagramType, "unsupported", 1,
                         "Use a supported diagram type")

(***************************************************************************)
(* FlexibleMermaidValidator.validateByType                                 *)
(***************************************************************************)
\* const typePattern = this.patterns[diagramType].type;
\* typePattern && typePattern.test(line)
FlexibleDeclaration(diagramType, line) ==
  "type" \in DOMAIN patterns[diagramType] /\ test(diagramType, "type", line)

\* isValidLine after the two assignments to it
FlexibleLineShape(diagramType, line) ==
  \/ /\ "validLine" \in DOMAIN patterns[diagramType]
     /\ test(diagramType, "validLine", line)
  \/ /\ diagramType = "graph"
     /\ (test("graph", "subgraph", line) \/ test("graph", "end", line))

FlexibleAfterScan(diagramType, hasType) ==
  IF ~hasType
  THEN Rejected("Missing " \o diagramType \o " declaration", "no_type", 1,
                "Add \"" \o diagramType \o "\" at the beginning")
  ELSE Accepted

RECURSIVE FlexibleScan(_, _, _, _)
FlexibleScan(diagramType, lines, i, hasType) ==
  IF ~(i < Len(lines)) THEN FlexibleAfterScan(diagramType, hasType)
  ELSE LET line == trim(lines[i + 1]) IN
       IF line = "" THEN FlexibleScan(diagramType, lines, i + 1, hasType)
       ELSE IF startsWith(line, "%%") THEN FlexibleScan(diagramType, lines, i + 1, hasType)
       ELSE IF FlexibleDeclaration(diagramType, line)
       THEN FlexibleScan(diagramType, lines, i + 1, TRUE)
       ELSE IF FlexibleLineShape(diagramType, line)
       THEN FlexibleScan(diagramType, lines, i + 1, hasType)
       ELSE Rejected("Invalid " \o diagramType \o " syntax: \"" \o line \o "\"", "syntax",
                     i + 1, "Check " \o diagramType \o " diagram syntax")

\* this.patterns[diagramType] is undefined for a name that is no key of the
\* table, and reading a property of undefined throws a TypeError
FlexibleValidateByType(diagramType, lines) ==
  IF diagramType \notin DOMAIN patterns
  THEN Thrown("Cannot read properties of undefined (reading 'type')")
  ELSE FlexibleScan(diagramType, lines, 0, FALSE)

(***************************************************************************)
(* validateSyntax, the same text in both classes.  c is the class of the   *)
(* instance; elapsed is Date.now() - startTime at the return statement.    *)
(***************************************************************************)
\* a dispatch on the lower-cased name of the dialect
validateByTypeLowerCased(c, diagramType, lines) ==
  IF c = Simple THEN SimpleValidateByType(toLowerCase(diagramType), lines)
  ELSE FlexibleValidateByType(toLowerCase(diagramType), lines)

validateByType(c, diagramType, lines) ==
  IF c = Simple THEN SimpleValidateByType(diagramType, lines)
  ELSE FlexibleValidateByType(diagramType, lines)

\* the input_error result without duration, dialect and element count
InputErrorBare ==
  [isValid |-> FALSE, error |-> Str("Diagram code must be a non-empty string"),
   type |-> Str("input_error"), line |-> Null, suggestion |-> Null]

\* the result for an argument that is falsy or not a string
InputError ==
  [isValid |-> FALSE, error |-> Str("Diagram code must be a non-empty string"),
   type |-> Str("input_error"), line |-> Null, suggestion |-> Null,
   processingTime |-> 0, diagramType |-> "unknown", elementCount |-> 0]

\* the no_type result without a line number
NoTypeDetectedNoLine(elapsed) ==
  [isValid |-> FALSE, error |-> Str("No valid diagram type detected"),
   type |-> Str("no_type"), line |-> Null,
   suggestion |-> Str("Add a diagram type at the beginning (e.g., graph TD, sequenceDiagram, classDiagram)"),
   processingTime |-> elapsed, diagramType |-> "unknown", elementCount |-> 0]

NoTypeDetected(elapsed) ==
  [isValid |-> FALSE, error |-> Str("No valid diagram type detected"),
   type |-> Str("no_type"), line |-> Num(1),
   suggestion |-> Str("Add a diagram type at the beginning (e.g., graph TD, sequenceDiagram, classDiagram)"),
   processingTime |-> elapsed, diagramType |-> "unknown", elementCount |-> 0]

\* the catch block
GeneralError(message, elapsed, diagramType) ==
  [isValid |-> FALSE, error |-> Str(message), type |-> Str("general"), line |-> Null,
   suggestion |-> Str("Check diagram syntax and structure"),
   processingTime |-> elapsed, diagramType |-> diagramType, elementCount |-> 0]

validateSyntax(c, diagramCode, elapsed) ==
  IF falsy(diagramCode) \/ typeOf(diagramCode) # "string" THEN InputError
  ELSE LET lines == split(diagramCode.s)
           diagramType == detectDiagramType(lines)
       IN IF diagramType = "unknown" THEN NoTypeDetected(elapsed)
          ELSE LET validationResult == validateByType(c, diagramType, lines) IN
               IF isThrown(validationResult)
               THEN GeneralError(validationResult.message, elapsed, diagramType)
               ELSE [processingTime |-> elapsed, diagramType |-> diagramType,
                     elementCount |-> countElements(lines)] @@ validationResult

(***************************************************************************)
(* State.                                                                  *)
(***************************************************************************)
VARIABLES
  cls,            \* the class the instance was constructed from
  isInitialized,  \* this.isInitialized (this.patterns is declared above)
  initPromise,    \* this.initPromise of a MermaidValidator: "null", "pending", "resolved", "rejected"
  served,         \* calls of validateSyntax and validateBatch made so far
  lastOp,         \* the method called last: "none", "validateSyntax", "validateBatch"
  input,          \* the argument of validateSyntax
  result,         \* the value validateSyntax returned
  pc,             \* "idle", or "batch" inside the loop of validateBatch
  diagrams,       \* the argument of validateBatch
  i,              \* the loop variable of validateBatch
  results,        \* the array validateBatch fills and returns
  calls,          \* the validateSyntax calls made on a MermaidValidator, settled or not
  initializeCalls,\* how often mermaid.initialize has been called
  request,        \* params of the CallTool request the server handles
  response        \* what the CallTool handler returned or threw

vars ==
  << cls, isInitialized, initPromise, patterns, served, lastOp, input, result, pc, diagrams,
     i, results, calls, initializeCalls, request, response >>

NoResult == [none |-> TRUE]

\* new SimpleMermaidValidator() or new FlexibleMermaidValidator()
Init ==
  /\ cls \in Classes
  /\ isInitialized = TRUE
  /\ initPromise = "undefined"
  /\ patterns = initializePatterns[cls]
  /\ served = 0
  /\ lastOp = "none"
  /\ input = Undefined
  /\ result = NoResult
  /\ pc = "idle"
  /\ diagrams = << >>
  /\ i = 0
  /\ results = << >>
  /\ calls = << >>
  /\ initializeCalls = 0
  /\ request = NoResult
  /\ response = NoResult

\* a call that hands back the result of the call before it, when there is one
ValidateSyntaxCallCached ==
  /\ pc = "idle"
  /\ served < MaxCalls
  /\ \E diagramCode \in CallInputs, elapsed \in 0..MaxElapsed :
       /\ input' = diagramCode
       /\ result' = IF result # NoResult THEN result
                    ELSE validateSyntax(cls, diagramCode, elapsed)
  /\ served' = served + 1
  /\ lastOp' = "validateSyntax"
  /\ diagrams' = << >>
  /\ i' = 0
  /\ results' = << >>
  /\ UNCHANGED << cls, isInitialized, initPromise, patterns, pc >>
  /\ UNCHANGED << calls, initializeCalls, request, response >>

\* a call of validateSyntax(diagramCode), from its first statement to its return
ValidateSyntaxCall ==
  /\ pc = "idle"
  /\ served < MaxCalls
  /\ \E diagramCode \in CallInputs, elapsed \in 0..MaxElapsed :
       /\ input' = diagramCode
       /\ result' = validateSyntax(cls, diagramCode, elapsed)
  /\ served' = served + 1
  /\ lastOp' = "validateSyntax"
  /\ diagrams' = << >>
  /\ i' = 0
  /\ results' = << >>
  /\ UNCHANGED << cls, isInitialized, initPromise, patterns, pc >>
  /\ UNCHANGED << calls, initializeCalls, request, response >>

\* validateBatch(diagrams): const results = []; let i = 0
ValidateBatchCall ==
  /\ pc = "idle"
  /\ served < MaxCalls
  /\ \E array \in BatchArrays : diagrams' = array
  /\ i' = 0
  /\ results' = << >>
  /\ pc' = "batch"
  /\ served' = served + 1
  /\ lastOp' = "validateBatch"
  /\ input' = Undefined
  /\ result' = NoResult
  /\ UNCHANGED << cls, isInitialized, initPromise, patterns >>
  /\ UNCHANGED << calls, initializeCalls, request, response >>

\* one turn of the loop that numbers the entries from 1
ValidateBatchStepOneBased ==
  /\ pc = "batch"
  /\ i < Len(diagrams)
  /\ \E elapsed \in 0..MaxElapsed :
       results' = Append(results, [index |-> i + 1] @@ validateSyntax(cls, diagrams[i + 1], elapsed))
  /\ i' = i + 1
  /\ UNCHANGED << cls, isInitialized, initPromise, patterns, served, lastOp, input, result, pc, diagrams >>
  /\ UNCHANGED << calls, initializeCalls, request, response >>

\* one turn of the loop: results.push({ index: i, ...result }); i++
ValidateBatchStep ==
  /\ pc = "batch"
  /\ i < Len(diagrams)
  /\ \E elapsed \in 0..MaxElapsed :
       results' = Append(results, [index |-> i] @@ validateSyntax(cls, diagrams[i + 1], elapsed))
  /\ i' = i + 1
  /\ UNCHANGED << cls, isInitialized, initPromise, patterns, served, lastOp, input, result, pc, diagrams >>
  /\ UNCHANGED << calls, initializeCalls, request, response >>

\* a return that also leaves the loop behind an input that was rejected
ValidateBatchReturnOnFailure ==
  /\ pc = "batch"
  /\ \/ ~(i < Len(diagrams))
     \/ i > 0 /\ ~results[i].isValid
  /\ pc' = "idle"
  /\ UNCHANGED << cls, isInitialized, initPromise, patterns, served, lastOp, input, result, diagrams, i, results >>
  /\ UNCHANGED << calls, initializeCalls, request, response >>

\* the loop condition fails: return results
ValidateBatchReturn ==
  /\ pc = "batch"
  /\ ~(i < Len(diagrams))
  /\ pc' = "idle"
  /\ UNCHANGED << cls, isInitialized, initPromise, patterns, served, lastOp, input, result, diagrams, i, results >>
  /\ UNCHANGED << calls, initializeCalls, request, response >>

Next ==
  \/ ValidateSyntaxCall
  \/ ValidateBatchCall
  \/ ValidateBatchStep
  \/ ValidateBatchReturn

Spec == Init /\ [][Next]_vars

(***************************************************************************)
(* validateSyntax examined call by call: a fresh instance and one argument *)
(* out of the generated texts, the suite texts and the values that are no  *)
(* text.                                                                   *)
(***************************************************************************)
ScanInit ==
  /\ cls \in Classes
  /\ isInitialized = TRUE
  /\ initPromise = "undefined"
  /\ patterns = initializePatterns[cls]
  /\ served = 0
  /\ lastOp = "none"
  /\ input \in ScanInputs
  /\ result = NoResult
  /\ pc = "idle"
  /\ diagrams = << >>
  /\ i = 0
  /\ results = << >>
  /\ calls = << >>
  /\ initializeCalls = 0
  /\ request = NoResult
  /\ response = NoResult

ScanValidate ==
  /\ pc = "idle"
  /\ served = 0
  /\ \E elapsed \in 0..MaxElapsed : result' = validateSyntax(cls, input, elapsed)
  /\ served' = 1
  /\ lastOp' = "validateSyntax"
  /\ UNCHANGED << cls, isInitialized, initPromise, patterns, input, pc, diagrams, i, results >>
  /\ UNCHANGED << calls, initializeCalls, request, response >>

ScanNext == ScanValidate

ScanSpec == ScanInit /\ [][ScanNext]_vars

(***************************************************************************)
(* Vocabulary of the properties.                                           *)
(***************************************************************************)
Dialects == DOMAIN SimplePatterns

\* validateSyntax has returned
Returned == lastOp = "validateSyntax" /\ result # NoResult

\* the argument was a non-empty text
TextGiven == input.t = "string" /\ ~falsy(input)

InputLines == IF input.t = "string" THEN split(input.s) ELSE << >>

AllNull(r) == r.error = Null /\ r.type = Null /\ r.line = Null /\ r.suggestion = Null

ErrorFields(r) == << r.error, r.type, r.line, r.suggestion >>

\* the fields a verdict consists of: everything except processingTime
Verdict(r) ==
  << r.isValid, r.error, r.type, r.line, r.suggestion, r.diagramType, r.elementCount >>

EndsWith(str, suffix) ==
  Len(str) >= Len(suffix) /\ SubSeq(str, Len(str) - Len(suffix) + 1, Len(str)) = suffix

\* the raw positions of the lines that are neither blank nor a comment
MeaningfulPositions(lines) == { k \in 1..Len(lines) : meaningful(lines[k]) }

First(S) == CHOOSE k \in S : \A j \in S : k <= j

\* the declaration rule of a dialect and its line-shape rules (for the
\* flowchart also the subgraph and end markers), in the table of class c
DeclarationRule(dialect, line) ==
  test(dialect, IF dialect = "graph" THEN "types" ELSE "type", line)

LineShapeRule(c, dialect, line) ==
  IF c = Simple THEN SimpleLineShape(dialect, line) ELSE FlexibleLineShape(dialect, line)

\* the first meaningful line of the text is a declaration of the dialect
Declares(c, dialect, lines) ==
  /\ MeaningfulPositions(lines) # {}
  /\ DeclarationRule(dialect, trim(lines[First(MeaningfulPositions(lines))]))

\* the dialects whose declaration rule the first meaningful line matches
DeclaredDialects(c, lines) ==
  LET positions == MeaningfulPositions(lines) IN
  IF positions = {} THEN {}
  ELSE LET declaration == trim(lines[First(positions)]) IN
       { dialect \in Dialects : DeclarationRule(dialect, declaration) }

\* the raw positions of the meaningful lines no rule of the dialect accepts
Offending(c, dialect, lines) ==
  { k \in MeaningfulPositions(lines) :
      /\ ~DeclarationRule(dialect, trim(lines[k]))
      /\ ~LineShapeRule(c, dialect, trim(lines[k])) }

(***************************************************************************)
(* Properties of validateSyntax, one call on a fresh instance (ScanSpec).  *)
(***************************************************************************)

\* C1: validateSyntax on the five-line flowchart 'graph TD' / 'A[Start] -->
\* B{Decision}' / 'B -->|Yes| C[Process]' / 'B -->|No| D[End]' / 'C --> D'
\* returns isValid = true, the four error fields null, diagramType "graph"
\* and elementCount 5, in both classes.
C1_SimpleFlowchartIsValid ==
  (Returned /\ input = Str(SimpleFlowchart)) =>
    /\ result.isValid
    /\ AllNull(result)
    /\ result.diagramType = "graph"
    /\ result.elementCount = 5

\* C2: on every return path the result has isValid = true exactly if error,
\* type, line and suggestion are all null, and a result with isValid = false
\* has a non-null error and a non-null type.
C2_ValidIffErrorFieldsNull ==
  Returned =>
    /\ result.isValid <=> AllNull(result)
    /\ ~result.isValid => (result.error # Null /\ result.type # Null)

C2_Witness ==
  /\ Returned
  /\ ~result.isValid
  /\ result.type = Str("syntax")
  /\ result.line # Null

\* C3: for each of the ten dialects, a non-empty text whose first meaningful
\* line matches the declaration rule of the dialect and whose other
\* meaningful lines each match the declaration rule or a line-shape rule is
\* returned with isValid = true and the four error fields null.
C3_ConformingTextIsValid ==
  (Returned /\ TextGiven) =>
    LET lines == InputLines IN
    \A dialect \in DeclaredDialects(cls, lines) :
      Offending(cls, dialect, lines) = {} => (result.isValid /\ AllNull(result))

\* C4: fail-fast scan.  When a text of a recognised dialect has a meaningful
\* line that no rule of the dialect accepts, the result has type "syntax" and
\* line k, the raw 1-based position of the first such line; the message ends
\* with that line, trimmed and quoted; and the error fields are those of the
\* text cut after line k, so that the lines after k have no effect on them.
C4_FailFastScan ==
  (Returned /\ TextGiven) =>
    LET lines == InputLines IN
    \A dialect \in DeclaredDialects(cls, lines) :
      LET offending == Offending(cls, dialect, lines) IN
      offending # {}
        => LET k == First(offending)
               cut == Str(join(SubSeq(lines, 1, k)))
           IN /\ result.type = Str("syntax")
              /\ result.line = Num(k)
              /\ result.error # Null
              /\ EndsWith(result.error.s, "\"" \o trim(lines[k]) \o "\"")
              /\ ErrorFields(result) = ErrorFields(validateSyntax(cls, cut, 0))

\* an offending third line behind a comment line, in a text of three lines
C4_Witness ==
  /\ Returned
  /\ TextGiven
  /\ Len(InputLines) = 3
  /\ ~meaningful(InputLines[2])
  /\ \E dialect \in Dialects :
       /\ Declares(cls, dialect, InputLines)
       /\ Offending(cls, dialect, InputLines) = {3}
  /\ result.line = Num(3)

\* C5: the empty string and every value that is no string (null, undefined,
\* a number, an object, an array) is returned with isValid = false, type
\* "input_error", the message "Diagram code must be a non-empty string", line
\* and suggestion null, processingTime 0, diagramType "unknown" and
\* elementCount 0.
C5_InputError ==
  (Returned /\ (input = Str("") \/ input.t # "string")) =>
    /\ ~result.isValid
    /\ result.type = Str("input_error")
    /\ result.error = Str("Diagram code must be a non-empty string")
    /\ result.line = Null
    /\ result.suggestion = Null
    /\ result.processingTime = 0
    /\ result.diagramType = "unknown"
    /\ result.elementCount = 0

C5_Witness ==
  /\ Returned
  /\ input = Str("")
  /\ result.type = Str("input_error")

\* C6: a non-empty text whose first meaningful line matches none of the ten
\* declaration rules is returned with isValid = false, type "no_type", line
\* 1, diagramType "unknown" and elementCount 0, wherever that line stands and
\* whatever follows it.
C6_NoDeclaration ==
  (Returned /\ TextGiven /\ MeaningfulPositions(InputLines) # {}
            /\ DeclaredDialects(cls, InputLines) = {}) =>
    /\ ~result.isValid
    /\ result.type = Str("no_type")
    /\ result.line = Num(1)
    /\ result.diagramType = "unknown"
    /\ result.elementCount = 0

\* the first meaningful line stands at raw position 2 and more lines follow
C6_Witness ==
  /\ Returned
  /\ TextGiven
  /\ Len(InputLines) = 3
  /\ MeaningfulPositions(InputLines) = {2, 3}
  /\ \A dialect \in Dialects : ~Declares(cls, dialect, InputLines)
  /\ result.type = Str("no_type")

\* C7: a text detected as the pie dialect in which every meaningful line is a
\* declaration line (none matches the data rule) is returned with isValid =
\* false, type "no_data" and line 2, in both classes.
C7_PieWithoutData ==
  (Returned /\ TextGiven /\ Declares(cls, "pie", InputLines)
            /\ \A k \in MeaningfulPositions(InputLines) :
                 /\ DeclarationRule("pie", trim(InputLines[k]))
                 /\ ~test("pie", IF cls = Simple THEN "data" ELSE "validLine",
                          trim(InputLines[k]))) =>
    /\ ~result.isValid
    /\ result.type = Str("no_data")
    /\ result.line = Num(2)

(***************************************************************************)
(* Properties of successive calls on one instance (Spec).                  *)
(***************************************************************************)

\* C8: the element at position k of the array validateBatch builds has
\* index = k (counted from 0) and agrees with validateSyntax on the k-th
\* input alone in isValid, error, type, line, suggestion, diagramType and
\* elementCount.
C8_BatchAgreesWithSingleCalls ==
  lastOp = "validateBatch" =>
    \A k \in 1..Len(results) :
      /\ results[k].index = k - 1
      /\ Verdict(results[k]) = Verdict(validateSyntax(cls, diagrams[k], 0))

\* a returned batch of two different inputs with two different verdicts
C8_Witness ==
  /\ lastOp = "validateBatch"
  /\ pc = "idle"
  /\ Len(results) = 2
  /\ diagrams[1] # diagrams[2]
  /\ results[1].isValid
  /\ ~results[2].isValid

\* C9: validateBatch takes the inputs one after the other and does not stop
\* at a failing one: inside the loop the array holds one entry per input
\* taken so far, each turn takes the next input, and the array returned has
\* exactly as many entries as there are inputs.
C9_BatchNeverStopsEarly ==
  /\ [](lastOp = "validateBatch" =>
          /\ Len(results) = i
          /\ i <= Len(diagrams)
          /\ pc = "idle" => Len(results) = Len(diagrams))
  /\ [][(pc = "batch" /\ pc' = "batch") =>
          (i' = i + 1 /\ results' # results /\ SubSeq(results', 1, i) = results)]_vars

\* a returned batch whose first input failed and whose second was validated
C9_Witness ==
  /\ lastOp = "validateBatch"
  /\ pc = "idle"
  /\ Len(diagrams) = 2
  /\ Len(results) = 2
  /\ ~results[1].isValid
  /\ results[2].isValid

CommentPositions(lines) ==
  IF Len(lines) > 1
  THEN { k \in 1..Len(lines) : startsWith(trim(lines[k]), "%%") }
  ELSE {}

\* the text that the argument is obtained from by inserting line k
WithoutLine(k) == join(removeLine(InputLines, k))

\* the raw position, once line k is inserted, of the line that was at j
Shifted(j, k) == IF j < k THEN j ELSE j + 1

\* r, returned for a text, and without, returned for the text less its
\* comment line k, report the same outcome
SameOutcome(r, without, k) ==
  /\ r.isValid = without.isValid
  /\ r.type = without.type
  /\ r.diagramType = without.diagramType
  /\ r.elementCount = without.elementCount
  /\ r.type = Str("syntax") => r.line = Num(Shifted(without.line.n, k))

\* C11 as stated: for every text T and every text T' obtained from T by
\* inserting a comment line at any position, validateSyntax(T') has the
\* isValid, type, diagramType and elementCount of validateSyntax(T), and a
\* syntax failure designates the same line of the content.
C11_CommentTransparency ==
  (Returned /\ input.t = "string") =>
    \A k \in CommentPositions(InputLines) :
      SameOutcome(result, validateSyntax(cls, Str(WithoutLine(k)), 0), k)

\* C11, amended: the same for every non-empty text T.  (The empty text is
\* answered with input_error before any line is read; with a comment line
\* inserted it is a text without declaration, answered with no_type.)
C11_CommentTransparencyNonEmpty ==
  (Returned /\ input.t = "string") =>
    \A k \in CommentPositions(InputLines) :
      WithoutLine(k) # "" =>
        SameOutcome(result, validateSyntax(cls, Str(WithoutLine(k)), 0), k)

C11_Witness ==
  /\ Returned
  /\ input.t = "string"
  /\ 1 \in CommentPositions(InputLines)
  /\ result.type = Str("syntax")
  /\ result.line = Num(3)
  /\ result.elementCount = 2

\* C12: whenever the detected dialect is not unknown, elementCount is the
\* number of lines of the whole raw text that are neither blank after
\* trimming nor a comment, the declaration and the lines behind a rejected
\* line included, whatever the verdict.
C12_ElementCountOfRawText ==
  (Returned /\ TextGiven /\ result.diagramType # "unknown") =>
    result.elementCount = Cardinality(MeaningfulPositions(InputLines))

C12_Witness ==
  /\ Returned
  /\ TextGiven
  /\ result.type = Str("syntax")
  /\ result.line = Num(2)
  /\ Len(InputLines) = 3
  /\ result.elementCount = 3

\* C13: validateSyntax is total.  For every argument (any text, also of
\* blank or comment lines only, null, undefined, numbers, objects, arrays)
\* it returns an object with processingTime, diagramType and elementCount,
\* and nothing is thrown to the caller.
C13_Total ==
  Returned =>
    /\ ~isThrown(result)
    /\ { "isValid", "processingTime", "diagramType", "elementCount" } \subseteq DOMAIN result
    /\ result.processingTime \in 0..MaxElapsed
    /\ result.diagramType \in STRING
    /\ result.elementCount \in 0..Len(InputLines)

C13_Witness ==
  /\ Returned
  /\ input \in { EmptyArray, Str("%% c\n") }
  /\ result.diagramType = "unknown"
  /\ result.elementCount = 0

(***************************************************************************)
(* The texts of the test suite and of README.md, in the validator that     *)
(* server.js and the test suite import (ScanSpec).                         *)
(***************************************************************************)
\* getSupportedTypes, the same list in both validators
getSupportedTypes ==
  << "graph", "flowchart", "sequenceDiagram", "classDiagram", "stateDiagram",
     "erDiagram", "gantt", "journey", "pie", "gitGraph", "mindmap" >>

\* the imported validator has returned for the text
ImportedReturnedFor(text) == Returned /\ cls = Flexible /\ input = Str(text)

\* C14: the minimal flowchart 'graph TD' / 'A --> B' (complexityTests
\* 'Simple', first diagram of the README batch example) is accepted by the
\* imported validator.
C14_MinimalFlowchartAccepted ==
  ImportedReturnedFor(ReadmeBatch[1]) => result.isValid

\* C15: the flowchart 'graph TD' / 'A[Start] -> B[End]', whose connection
\* has a single-dash arrow, is rejected by the imported validator with
\* isValid = false and type "syntax" at the line of the arrow.
C15_SingleDashArrowIsSyntaxError ==
  ImportedReturnedFor("graph TD\n    A[Start] -> B[End]") =>
    /\ ~result.isValid
    /\ result.type = Str("syntax")
    /\ result.line = Num(2)

\* C16: the flowchart 'graph TD' / 'A[Start] --> B[End]' / 'invalidCommand
\* xyz' is reported invalid by the imported validator with type
\* "unknown_command".
C16_UnknownCommand ==
  ImportedReturnedFor("graph TD\n    A[Start] --> B[End]\n    invalidCommand xyz") =>
    /\ ~result.isValid
    /\ result.type = Str("unknown_command")

\* C17: a text whose first meaningful line is one of the type keywords of
\* the README is never answered by the server's validator with diagramType
\* "unknown" and type "no_type".
C17_ReadmeTypesRecognised ==
  (Returned /\ cls = Flexible /\ TextGiven /\ MeaningfulPositions(InputLines) # {}
     /\ trim(InputLines[First(MeaningfulPositions(InputLines))]) \in ReadmeTypes) =>
    ~(result.diagramType = "unknown" /\ result.type = Str("no_type"))

\* C19 as stated: the diagramType of every returned object is "unknown" or
\* one of the names getSupportedTypes returns.
C19_DiagramTypeIsSupportedName ==
  Returned =>
    result.diagramType \in
      { "unknown" } \cup { getSupportedTypes[k] : k \in 1..Len(getSupportedTypes) }

\* C19, amended: the diagramType of every returned object is "unknown" or
\* one of the ten dialect identifiers graph, sequence, classDiagram,
\* stateDiagram, erDiagram, gantt, journey, pie, gitGraph, mindmap.
C19_DiagramTypeIsDialectIdentifier ==
  Returned =>
    result.diagramType \in
      { "unknown", "graph", "sequence", "classDiagram", "stateDiagram", "erDiagram",
        "gantt", "journey", "pie", "gitGraph", "mindmap" }

C19_Witness ==
  /\ Returned
  /\ result.isValid
  /\ result.diagramType = "sequence"

\* C20: detector and validator agree.  When detectDiagramType names a
\* dialect, the scan of that dialect sees the declaration on the same line,
\* so no returned object has type "no_type" together with a diagramType
\* other than "unknown"; in both classes.
C20_DetectorValidatorAgreement ==
  (Returned /\ result.diagramType # "unknown") => result.type # Str("no_type")

(***************************************************************************)
(* Detection, the flowchart markers and the dispatch (ScanSpec).           *)
(***************************************************************************)
\* the order in which detectDiagramType tests the declaration rules
DetectionOrder ==
  << "graph", "sequence", "classDiagram", "stateDiagram", "erDiagram", "gantt",
     "journey", "pie", "gitGraph", "mindmap" >>

\* the first meaningful line as detection reads it: trimmed and lower-cased
DetectedLine(lines) == toLowerCase(trim(lines[First(MeaningfulPositions(lines))]))

\* the places in DetectionOrder whose declaration rule matches the line
MatchingPlaces(line) ==
  { k \in 1..Len(DetectionOrder) : DeclarationRule(DetectionOrder[k], line) }

\* C21: the diagramType of a call on a non-empty text is a function of the
\* first meaningful line alone (trimmed, lower-cased): it is the dialect of
\* the first declaration rule, in the order graph, sequence, classDiagram,
\* stateDiagram, erDiagram, gantt, journey, pie, gitGraph, mindmap, that
\* matches the line, and unknown when no rule matches or the text has no
\* meaningful line; at most one rule matches, so the order does not matter
\* and no later line changes the answer.
C21_DetectionReadsFirstMeaningfulLine ==
  (Returned /\ TextGiven) =>
    LET lines == InputLines IN
    IF MeaningfulPositions(lines) = {} THEN result.diagramType = "unknown"
    ELSE LET places == MatchingPlaces(DetectedLine(lines)) IN
         /\ Cardinality(places) <= 1
         /\ result.diagramType =
              IF places = {} THEN "unknown" ELSE DetectionOrder[First(places)]

\* a declaration behind a comment line and in front of a line of its dialect
C21_Witness ==
  /\ Returned
  /\ input = Str("%% c\nGitGraph\ncommit")
  /\ result.diagramType = "gitGraph"

\* the raw positions of the lines that match the subgraph marker or the end
\* marker of the flowchart table of class c
MarkerPositions(c, lines) ==
  { k \in MeaningfulPositions(lines) :
      \/ test("graph", "subgraph", trim(lines[k]))
      \/ test("graph", IF c = Simple THEN "endSubgraph" ELSE "end", trim(lines[k])) }

DispatchCases ==
  { "graph", "sequence", "classDiagram", "stateDiagram", "erDiagram", "gantt", "journey",
    "pie", "gitGraph", "mindmap" }

\* C24: the unsupported-dialect branch of the dispatch is never taken.  The
\* diagramType of every returned object is unknown or one of the ten case
\* labels, and no returned object has type "unsupported" or type "general".
C24_UnsupportedUnreachable ==
  Returned =>
    /\ result.diagramType \in DispatchCases \cup { "unknown" }
    /\ result.type \notin { Str("unsupported"), Str("general") }

\* a text that went through the dispatch, to its last case
C24_Witness ==
  /\ Returned
  /\ TextGiven
  /\ result.diagramType = "mindmap"
  /\ result.type = Str("syntax")

\* C25: a non-empty string without a meaningful line (white space, blank
\* lines and %% comment lines only) passes the input test and is turned
\* away by detection: type "no_type", not "input_error", line 1, diagramType
\* "unknown", elementCount 0.
C25_BlankTextIsNoType ==
  (Returned /\ input.t = "string" /\ input.s # "" /\ MeaningfulPositions(InputLines) = {}) =>
    /\ ~result.isValid
    /\ result.type = Str("no_type")
    /\ result.type # Str("input_error")
    /\ result.line = Num(1)
    /\ result.diagramType = "unknown"
    /\ result.elementCount = 0

\* a comment line followed by a line of blanks
C25_Witness ==
  /\ Returned
  /\ input = Str("%% c\n  ")
  /\ MeaningfulPositions(InputLines) = {}
  /\ result.error = Str("No valid diagram type detected")

(***************************************************************************)
(* MermaidValidator, the validator that hands the text to the mermaid      *)
(* engine.  mermaid.initialize and mermaid.parse belong to the engine:      *)
(* each either resolves or throws, and which of the two is not decided     *)
(* here.                                                                   *)
(***************************************************************************)
MermaidValidator == "MermaidValidator"

\* String.prototype.includes
includes(str, sub) ==
  \E p \in 1..(Len(str) + 1) :
    p + Len(sub) - 1 <= Len(str) /\ SubSeq(str, p, p + Len(sub) - 1) = sub

\* the errors mermaid.parse rejects with: an Error with a message, or a
\* value thrown without one
Error(message) == [message |-> Str(message)]

ParseErrors ==
  { Error("Syntax error in text"),
    Error("Syntax error in text: unknown token, parse failed"),
    Error("No diagram type detected matching given configuration for text: hello"),
    Error("Unknown diagram type"),
    Error("unknown parse identifier relation"),
    Error("Parse error on line 3: got 'x'"),
    Error("Parse identifier relation"),
    Error("Invalid identifier a b"),
    Error("Identifier in relation at Line 12"),
    Error("Bad relation"),
    Error("Relation to an unknown identifier"),
    Error("Lexical error on line 2. Unrecognized text."),
    Error("Maximum text size in diagram exceeded"),
    Error(""),
    [message |-> Undefined] }

\* error.message?.toLowerCase() || ''
lowerMessage(error) ==
  IF error.message.t = "string" THEN toLowerCase(error.message.s) ELSE ""

\* a classifier that tests "parse" ahead of "unknown"
_classifyErrorParseFirst(error) ==
  LET message == lowerMessage(error) IN
  IF includes(message, "syntax error") THEN "syntax"
  ELSE IF includes(message, "no diagram type") THEN "no_type"
  ELSE IF includes(message, "parse") THEN "parse"
  ELSE IF includes(message, "unknown") THEN "unknown_command"
  ELSE IF includes(message, "identifier") THEN "identifier"
  ELSE IF includes(message, "relation") THEN "relation"
  ELSE "general"

_classifyError(error) ==
  LET message == lowerMessage(error) IN
  IF includes(message, "syntax error") THEN "syntax"
  ELSE IF includes(message, "no diagram type") THEN "no_type"
  ELSE IF includes(message, "unknown") THEN "unknown_command"
  ELSE IF includes(message, "parse") THEN "parse"
  ELSE IF includes(message, "identifier") THEN "identifier"
  ELSE IF includes(message, "relation") THEN "relation"
  ELSE "general"

\* parseInt of a run of decimal digits
parseInt(digits) ==
  LET value[k \in 0..Len(digits)] ==
        IF k = 0 THEN 0
        ELSE value[k - 1] * 10
               + (CHOOSE d \in 0..9 : SubSeq("0123456789", d + 1, d + 1) = SubSeq(digits, k, k))
  IN value[Len(digits)]

\* message.match(/line (\d+)/i): the leftmost "line " that a digit follows,
\* with all the digits that follow it
_extractLineNumber(error) ==
  LET message == IF error.message.t = "string" THEN error.message.s ELSE ""
      isDigit(p) == p <= Len(message) /\ SubSeq(message, p, p) \in DigitChars
      found == { p \in 1..Len(message) :
                   /\ p + 4 <= Len(message)
                   /\ toLowerCase(SubSeq(message, p, p + 4)) = "line "
                   /\ isDigit(p + 5) }
  IN IF found = {} THEN Null
     ELSE LET from == First(found) + 5
              to   == CHOOSE q \in from..Len(message) :
                        /\ \A p \in from..q : isDigit(p)
                        /\ ~isDigit(q + 1)
          IN Num(parseInt(SubSeq(message, from, to)))

suggestions ==
  [ syntax          |-> "Check for missing semicolons, brackets, or incorrect syntax",
    no_type         |-> "Add a diagram type at the beginning (e.g., graph TD, sequenceDiagram)",
    unknown_command |-> "Verify the command is supported in your Mermaid version",
    parse           |-> "Check the structure and syntax of your diagram",
    identifier      |-> "Ensure all identifiers are valid and properly referenced",
    relation        |-> "Check arrow syntax and node connections",
    general         |-> "Review the diagram syntax and structure" ]

\* a suggestion that does not look at the kind of the error
_getSuggestionGeneral(error) == suggestions.general

\* suggestions[errorType] || suggestions.general
_getSuggestion(error) ==
  LET errorType == _classifyError(error) IN
  IF errorType \in DOMAIN suggestions THEN suggestions[errorType] ELSE suggestions.general

\* the alternatives of the expression of _extractDiagramType, in its order
diagramKeywords ==
  << "graph", "flowchart", "sequenceDiagram", "seq", "classDiagram", "class",
     "stateDiagram", "state", "erDiagram", "er", "gantt", "journey", "pie", "gitgraph",
     "mindmap", "timeline", "zenuml", "c4", "sankey", "block", "architecture" >>

\* code.match(/^\s*(graph|flowchart|...)/i): behind the leading white space,
\* the first alternative the text goes on with; match[1].toLowerCase()
_extractDiagramType(code) ==
  LET kept  == { p \in 1..Len(code) : SubSeq(code, p, p) \notin SpaceChars }
      rest  == IF kept = {} THEN "" ELSE toLowerCase(SubSeq(code, First(kept), Len(code)))
      match == { k \in 1..Len(diagramKeywords) : startsWith(rest, toLowerCase(diagramKeywords[k])) }
  IN IF match = {} THEN "unknown" ELSE toLowerCase(diagramKeywords[First(match)])

\* _countElements: the lines that are neither blank nor start with %% (or %%{)
_countElements(code) ==
  LET lines == split(code) IN
  Cardinality({ k \in 1..Len(lines) :
                  /\ trim(lines[k]) # ""
                  /\ ~startsWith(trim(lines[k]), "%%")
                  /\ ~startsWith(trim(lines[k]), "%%{") })

\* what awaiting mermaid.parse gives: the promise resolves, or it rejects
\* with one of the errors
Resolved == [resolved |-> TRUE]

ParseOutcomes == { Resolved } \cup ParseErrors

\* the return statement behind the input test of MermaidValidator
MermaidValidatorInputError ==
  [isValid |-> FALSE, error |-> Str("Diagram code must be a non-empty string"),
   type |-> Str("input_error"), line |-> Null, suggestion |-> Null]

\* MermaidValidator.validateSyntax behind await this.init(): the try block
\* around mermaid.parse and its catch block
MermaidValidatorParse(diagramCode, parsed, elapsed) ==
  IF "resolved" \in DOMAIN parsed
  THEN [isValid |-> TRUE, error |-> Null, type |-> Null, line |-> Null, suggestion |-> Null,
        processingTime |-> elapsed,
        diagramType |-> _extractDiagramType(diagramCode.s),
        elementCount |-> _countElements(diagramCode.s)]
  ELSE [isValid |-> FALSE, error |-> parsed.message,
        type |-> Str(_classifyError(parsed)),
        line |-> _extractLineNumber(parsed),
        suggestion |-> Str(_getSuggestion(parsed)),
        processingTime |-> elapsed,
        diagramType |-> _extractDiagramType(diagramCode.s),
        elementCount |-> 0]

\* the arguments of the calls made on a MermaidValidator
EngineInputs ==
  { Str("graph TD\n    A --> B"), Str("\n  SEQ x\n%% c"), Str("hello"),
    Str("%%{init: {}}%%\nclassDiagram\n  class A"), Str(""), Null, Num(42) }

\* new MermaidValidator()
EngineInit ==
  /\ cls = MermaidValidator
  /\ isInitialized = FALSE
  /\ initPromise = "null"
  /\ patterns = << >>
  /\ served = 0
  /\ lastOp = "none"
  /\ input = Undefined
  /\ result = NoResult
  /\ pc = "idle"
  /\ diagrams = << >>
  /\ i = 0
  /\ results = << >>
  /\ calls = << >>
  /\ initializeCalls = 0
  /\ request = NoResult
  /\ response = NoResult

\* await validator.validateSyntax(diagramCode), from the call to the
\* settling of its promise, no other call running meanwhile: the input
\* test, init() and _doInit(), mermaid.parse and the two return statements
EngineValidateSyntax ==
  /\ cls = MermaidValidator
  /\ pc = "idle"
  /\ served < MaxCalls
  /\ \E diagramCode \in EngineInputs :
       /\ input' = diagramCode
       /\ IF falsy(diagramCode) \/ typeOf(diagramCode) # "string"
          THEN /\ result' = MermaidValidatorInputError
               /\ UNCHANGED << isInitialized, initPromise, initializeCalls >>
          ELSE /\ IF isInitialized \/ initPromise # "null"
                  THEN UNCHANGED << isInitialized, initPromise, initializeCalls >>
                  ELSE \E initialized \in BOOLEAN :
                         /\ initPromise' = IF initialized THEN "resolved" ELSE "rejected"
                         /\ isInitialized' = initialized
                         /\ initializeCalls' = initializeCalls + 1
               /\ IF isInitialized'
                  THEN \E parsed \in ParseOutcomes, elapsed \in 0..MaxElapsed :
                         result' = MermaidValidatorParse(diagramCode, parsed, elapsed)
                  ELSE result' = Thrown("mermaid.initialize failed")
  /\ served' = served + 1
  /\ lastOp' = "validateSyntax"
  /\ UNCHANGED << cls, patterns, pc, diagrams, i, results, calls, request, response >>

EngineNext == EngineValidateSyntax

EngineSpec == EngineInit /\ [][EngineNext]_vars

(***************************************************************************)
(* Properties of the error classifier of MermaidValidator (EngineSpec).    *)
(***************************************************************************)
\* validateSyntax of the MermaidValidator has returned a classified error
ClassifiedError ==
  /\ cls = MermaidValidator
  /\ lastOp = "validateSyntax"
  /\ ~isThrown(result)
  /\ result # NoResult
  /\ result.type \notin { Null, Str("input_error") }

\* C18 as stated: the suggestion of a classified error is a function of its
\* kind only, and it is the text of this table, where unknown_command has
\* "Verify the command is supported in your diagram syntax version".
C18_SuggestionTable ==
  ClassifiedError =>
    result.suggestion =
      Str([ syntax          |-> "Check for missing semicolons, brackets, or incorrect syntax",
            no_type         |-> "Add a diagram type at the beginning (e.g., graph TD, sequenceDiagram)",
            unknown_command |-> "Verify the command is supported in your diagram syntax version",
            parse           |-> "Check the structure and syntax of your diagram",
            identifier      |-> "Ensure all identifiers are valid and properly referenced",
            relation        |-> "Check arrow syntax and node connections",
            general         |-> "Review the diagram syntax and structure" ][result.type.s])

\* C18, amended: the same, where the text for unknown_command is "Verify
\* the command is supported in your Mermaid version".
C18_SuggestionTableOfTheCode ==
  ClassifiedError =>
    result.suggestion =
      Str([ syntax          |-> "Check for missing semicolons, brackets, or incorrect syntax",
            no_type         |-> "Add a diagram type at the beginning (e.g., graph TD, sequenceDiagram)",
            unknown_command |-> "Verify the command is supported in your Mermaid version",
            parse           |-> "Check the structure and syntax of your diagram",
            identifier      |-> "Ensure all identifiers are valid and properly referenced",
            relation        |-> "Check arrow syntax and node connections",
            general         |-> "Review the diagram syntax and structure" ][result.type.s])

C18_Witness ==
  /\ ClassifiedError
  /\ result.type = Str("unknown_command")
  /\ result.error = Str("Unknown diagram type")

\* the substring tests of the classifier with their kinds, in their order
ClassifierOrder ==
  << << "syntax error", "syntax" >>, << "no diagram type", "no_type" >>,
     << "unknown", "unknown_command" >>, << "parse", "parse" >>,
     << "identifier", "identifier" >>, << "relation", "relation" >> >>

\* the places in ClassifierOrder whose substring the lower-cased message of
\* the returned error contains; none when the error had no message
ClassifierPlaces ==
  LET message == IF result.error.t = "string" THEN toLowerCase(result.error.s) ELSE "" IN
  { k \in 1..Len(ClassifierOrder) : includes(message, ClassifierOrder[k][1]) }

\* C22: the kind of a classified error is that of the earliest test, in the
\* order "syntax error", "no diagram type", "unknown", "parse",
\* "identifier", "relation", whose substring the lower-cased message
\* contains, and general when it contains none or the message is missing.
C22_FirstSubstringWins ==
  ClassifiedError =>
    result.type = Str(IF ClassifierPlaces = {} THEN "general"
                      ELSE ClassifierOrder[First(ClassifierPlaces)][2])

\* a message with three of the substrings, the earliest test being the one
\* whose substring stands in the middle of the message
C22_Witness ==
  /\ ClassifiedError
  /\ result.error = Str("Relation to an unknown identifier")
  /\ ClassifierPlaces = {3, 5, 6}
  /\ result.type = Str("unknown_command")

(***************************************************************************)
(* MermaidValidator with calls in flight.  validateSyntax is an async      *)
(* function: a call runs to its first await and gives way; it goes on when *)
(* the promise it awaits has settled.  Any number of calls may be waiting  *)
(* at `await this.init()` or at `await mermaid.parse(diagramCode)`.        *)
(***************************************************************************)
\* the arguments of the calls in flight
AsyncInputs == { Str("graph TD\n    A --> B"), Str(""), Null }

\* what mermaid.parse settles with
AsyncParseOutcomes == { Resolved, Error("Syntax error in text") }

\* a call of validateSyntax: its argument, the await it stands at ("init",
\* "parse") or "done", what init() handed it to await, and its outcome
Call(diagramCode, at, awaits, outcome) ==
  [diagramCode |-> diagramCode, at |-> at, awaits |-> awaits, result |-> outcome]

\* a call whose init() starts _doInit whenever the instance is not initialized
ValidateSyntaxStartUnguarded ==
  /\ cls = MermaidValidator
  /\ Len(calls) < MaxCalls
  /\ \E diagramCode \in AsyncInputs :
       IF falsy(diagramCode) \/ typeOf(diagramCode) # "string"
       THEN /\ calls' = Append(calls, Call(diagramCode, "done", "nothing",
                                            MermaidValidatorInputError))
            /\ UNCHANGED << initPromise, initializeCalls >>
       ELSE /\ calls' = Append(calls, Call(diagramCode, "init",
                                            IF isInitialized THEN "nothing" ELSE "initPromise",
                                            NoResult))
            /\ IF ~isInitialized /\ initPromise \in { "null", "pending" }
               THEN initPromise' = "pending" /\ initializeCalls' = initializeCalls + 1
               ELSE UNCHANGED << initPromise, initializeCalls >>
  /\ served' = served + 1
  /\ UNCHANGED << cls, isInitialized, patterns, lastOp, input, result, pc, diagrams, i,
                  results, request, response >>

\* validateSyntax(diagramCode) from the call to its first await: the input
\* test with its return, and init(), which calls _doInit() when the
\* instance is neither initialized nor has a promise; _doInit runs to
\* `await mermaid.initialize(...)`
ValidateSyntaxStart ==
  /\ cls = MermaidValidator
  /\ Len(calls) < MaxCalls
  /\ \E diagramCode \in AsyncInputs :
       IF falsy(diagramCode) \/ typeOf(diagramCode) # "string"
       THEN /\ calls' = Append(calls, Call(diagramCode, "done", "nothing",
                                            MermaidValidatorInputError))
            /\ UNCHANGED << initPromise, initializeCalls >>
       ELSE /\ calls' = Append(calls, Call(diagramCode, "init",
                                            IF isInitialized THEN "nothing" ELSE "initPromise",
                                            NoResult))
            /\ IF ~isInitialized /\ initPromise = "null"
               THEN initPromise' = "pending" /\ initializeCalls' = initializeCalls + 1
               ELSE UNCHANGED << initPromise, initializeCalls >>
  /\ served' = served + 1
  /\ UNCHANGED << cls, isInitialized, patterns, lastOp, input, result, pc, diagrams, i,
                  results, request, response >>

\* the promise of mermaid.initialize settles and _doInit goes on: it sets
\* isInitialized, or it logs the error and throws it again
InitializeSettles ==
  /\ cls = MermaidValidator
  /\ initPromise = "pending"
  /\ \E initialized \in BOOLEAN :
       /\ isInitialized' = initialized
       /\ initPromise' = IF initialized THEN "resolved" ELSE "rejected"
  /\ UNCHANGED << cls, patterns, served, lastOp, input, result, pc, diagrams, i, results,
                  calls, initializeCalls, request, response >>

\* a call that goes on to mermaid.parse without awaiting init()
ValidateSyntaxAfterInitUnawaited ==
  /\ cls = MermaidValidator
  /\ \E k \in 1..Len(calls) :
       /\ calls[k].at = "init"
       /\ calls' = [calls EXCEPT ![k].at = "parse"]
  /\ UNCHANGED << cls, isInitialized, initPromise, patterns, served, lastOp, input, result,
                  pc, diagrams, i, results, initializeCalls, request, response >>

\* a call goes on behind `await this.init()`, which is outside the try
\* block: a rejected promise throws out of validateSyntax, otherwise
\* startTime is taken and mermaid.parse(diagramCode) is called and awaited
ValidateSyntaxAfterInit ==
  /\ cls = MermaidValidator
  /\ \E k \in 1..Len(calls) :
       /\ calls[k].at = "init"
       /\ calls[k].awaits = "initPromise" => initPromise \in { "resolved", "rejected" }
       /\ calls' =
            [calls EXCEPT ![k] =
               IF calls[k].awaits = "initPromise" /\ initPromise = "rejected"
               THEN Call(@.diagramCode, "done", @.awaits, Thrown("mermaid.initialize failed"))
               ELSE Call(@.diagramCode, "parse", @.awaits, NoResult)]
  /\ UNCHANGED << cls, isInitialized, initPromise, patterns, served, lastOp, input, result,
                  pc, diagrams, i, results, initializeCalls, request, response >>

\* the promise of mermaid.parse settles: the call returns from the try
\* block or from the catch block
ValidateSyntaxAfterParse ==
  /\ cls = MermaidValidator
  /\ \E k \in 1..Len(calls) :
       /\ calls[k].at = "parse"
       /\ \E parsed \in AsyncParseOutcomes, elapsed \in 0..MaxElapsed :
            calls' =
              [calls EXCEPT ![k] =
                 Call(@.diagramCode, "done", @.awaits,
                      MermaidValidatorParse(@.diagramCode, parsed, elapsed))]
  /\ UNCHANGED << cls, isInitialized, initPromise, patterns, served, lastOp, input, result,
                  pc, diagrams, i, results, initializeCalls, request, response >>

AsyncNext ==
  \/ ValidateSyntaxStart
  \/ InitializeSettles
  \/ ValidateSyntaxAfterInit
  \/ ValidateSyntaxAfterParse

AsyncSpec == EngineInit /\ [][AsyncNext]_vars

(***************************************************************************)
(* Properties of the calls in flight (AsyncSpec).                          *)
(***************************************************************************)
\* the calls that passed the input test: their argument is a non-empty string
StringCalls ==
  { k \in 1..Len(calls) : ~falsy(calls[k].diagramCode) /\ calls[k].diagramCode.t = "string" }

\* the calls waiting at `await this.init()` for the promise of _doInit
WaitingForInit ==
  { k \in 1..Len(calls) : calls[k].at = "init" /\ calls[k].awaits = "initPromise" }

\* C26: however the calls on one instance interleave, mermaid.initialize is
\* called at most once, and every call that waits for the initialization
\* waits for the one promise in this.initPromise.
C26_InitStartedAtMostOnce ==
  /\ initializeCalls <= 1
  /\ WaitingForInit # {} => (initPromise # "null" /\ initializeCalls = 1)

\* three calls started before the initialization has finished
C26_Witness ==
  /\ initPromise = "pending"
  /\ Cardinality(WaitingForInit) = 3
  /\ initializeCalls = 1

\* the calls for which mermaid.parse has been called: those waiting for it
\* and those that returned from the try block or the catch block behind it
ParseCalled ==
  { k \in 1..Len(calls) :
      \/ calls[k].at = "parse"
      \/ calls[k].at = "done" /\ ~isThrown(calls[k].result)
                              /\ calls[k].result # MermaidValidatorInputError }

\* C27: the initialization is lazy.  mermaid.initialize has not been called
\* as long as no call had a non-empty string for its argument (not at
\* construction, not by calls that return input_error), it has been called
\* once the first such call is made, and mermaid.parse is called for no
\* call while isInitialized is false.
C27_LazyInitialization ==
  /\ initializeCalls = (IF StringCalls = {} THEN 0 ELSE 1)
  /\ StringCalls = {} => (initPromise = "null" /\ ~isInitialized)
  /\ \A k \in 1..Len(calls) : k \notin StringCalls => calls[k].result.type = Str("input_error")
  /\ ParseCalled # {} => isInitialized

\* two calls with bad input came first; the third started the
\* initialization and has reached mermaid.parse
C27_Witness ==
  /\ Len(calls) = 3
  /\ StringCalls = {3}
  /\ initializeCalls = 1
  /\ ParseCalled = {3}
  /\ isInitialized

\* C28: no fault escapes validateSyntax.  Every call with a non-empty
\* string that has settled has returned an object with an isValid field,
\* also when mermaid.initialize failed, during this call or an earlier one.
C28_NoFaultEscapes ==
  \A k \in StringCalls :
    calls[k].at = "done" =>
      (~isThrown(calls[k].result) /\ "isValid" \in DOMAIN calls[k].result)

(***************************************************************************)
(* MermaidMCPServer: the handler of CallTool requests.  The server holds   *)
(* one FlexibleMermaidValidator.  A handler returns a tool result or       *)
(* throws; the time stamps, the uptime and the memory figures of the       *)
(* results are left out, and so are the pictographs of the messages.       *)
(***************************************************************************)
\* request.params.arguments: an object with the properties the handlers read
\* (a property that is not there reads as undefined)
Arguments(diagramCode, changeType, lineNumber, batch) ==
  [t |-> "object", diagramCode |-> diagramCode, changeType |-> changeType,
   lineNumber |-> lineNumber, diagrams |-> batch]

\* the names of the tools of the ListTools answer, and a name that is none
KnownTools ==
  { "validate_mermaid", "validate_mermaid_batch", "get_mermaid_info",
    "mermaid_realtime_validate" }

ToolNames == KnownTools \cup { "render_mermaid" }

\* the arguments of the requests: none at all, a diagramCode with or without
\* the properties of the real-time tool, or an array of diagrams
ToolArguments ==
  { Undefined }
    \cup { Arguments(code, change[1], change[2], Undefined) :
             code \in { Undefined, Null, Str(""), Str("pie title P"), Str("A --> B\nB --> C"),
                        Str("gantt\nT a") },
             change \in { << Undefined, Undefined >>, << Str("modify"), Num(2) >>,
                          << Str("full"), Num(0) >> } }
    \cup { Arguments(Undefined, Undefined, Undefined, batch) :
             batch \in { [t |-> "array", items |-> << >>],
                         [t |-> "array", items |-> << Str("gantt\nT a") >>],
                         [t |-> "array", items |-> << Str("pie\n\"a\" : 1"), Null >>] } }

\* new McpError(code, message)
McpError(code, message) == [thrown |-> TRUE, code |-> code, message |-> message]

\* JSON.stringify(value, null, 2): the text that stands for the value
stringify(value) == [json |-> value]

\* { content: [ { type: 'text', text }, ... ] }
ToolResult(texts) == [content |-> [k \in 1..Len(texts) |-> [type |-> "text", text |-> texts[k]]]]

\* reading a property of undefined or null throws a TypeError
TypeError(v, property) ==
  Thrown("Cannot read properties of " \o v.t \o " (reading '" \o property \o "')")

handleValidateMermaid(args, elapsed) ==
  IF falsyNullish(args) THEN TypeError(args, "diagramCode")
  ELSE IF falsyNullish(args.diagramCode) THEN TypeError(args.diagramCode, "length")
  ELSE ToolResult(<< stringify([success |-> TRUE,
                                validation |-> validateSyntax(cls, args.diagramCode, elapsed)]) >>)

\* FlexibleMermaidValidator.validateBatch, the whole loop
validateBatch(batch, elapsedOf) ==
  [k \in 1..Len(batch) |-> [index |-> k - 1] @@ validateSyntax(cls, batch[k], elapsedOf[k])]

\* results.reduce((sum, r) => sum + r.processingTime, 0)
RECURSIVE sumProcessingTime(_, _)
sumProcessingTime(rs, k) ==
  IF k = 0 THEN 0 ELSE sumProcessingTime(rs, k - 1) + rs[k].processingTime

\* the statements of handleValidateBatch behind `await validateBatch`;
\* averageProcessingTime is the quotient sum / total, kept as the two numbers
batchSummary(rs) ==
  ToolResult(<< stringify(
    [success |-> TRUE,
     summary |-> [total |-> Len(rs),
                  valid |-> Cardinality({ k \in 1..Len(rs) : rs[k].isValid }),
                  invalid |-> Cardinality({ k \in 1..Len(rs) : ~rs[k].isValid }),
                  averageProcessingTime |-> << sumProcessingTime(rs, Len(rs)), Len(rs) >>],
     results |-> rs]) >>)

handleValidateBatch(args, elapsedOf) ==
  IF falsyNullish(args) THEN TypeError(args, "diagrams")
  ELSE IF falsyNullish(args.diagrams) THEN TypeError(args.diagrams, "length")
  ELSE batchSummary(validateBatch(args.diagrams.items, elapsedOf))

handleGetInfo ==
  ToolResult(<< stringify(
    [server |-> [name |-> "mermaid-mcp-server", version |-> "1.0.0"],
     supportedTypes |-> getSupportedTypes,
     stats |-> [isInitialized |-> isInitialized, supportedTypes |-> Len(getSupportedTypes),
                validationType |-> "flexible-regex-based"]]) >>)

\* the statements of handleRealtimeValidate behind `await validateSyntax`
realtimeResult(args, validation) ==
  ToolResult(
    << IF validation.isValid
       THEN "Valid " \o validation.diagramType \o " diagram ("
              \o ToString(validation.elementCount) \o " elements)"
       ELSE validation.error.s
              \o (IF falsy(validation.line) THEN ""
                  ELSE " (line " \o ToString(validation.line.n) \o ")")
              \o (IF falsy(validation.suggestion) THEN ""
                  ELSE "\n" \o validation.suggestion.s),
       stringify([changeType |-> args.changeType,
                  lineNumber |-> IF falsy(args.lineNumber) THEN Null ELSE args.lineNumber,
                  realtime |-> TRUE] @@ validation) >>)

handleRealtimeValidate(args, elapsed) ==
  IF falsyNullish(args) THEN TypeError(args, "diagramCode")
  ELSE realtimeResult(args, validateSyntax(cls, args.diagramCode, elapsed))

\* the catch block of the handler: whatever the try block threw, an
\* McpError included, is wrapped in an McpError of code InternalError
catchError(returned) ==
  IF isThrown(returned)
  THEN McpError("InternalError", "Tool execution failed: " \o returned.message)
  ELSE returned

\* the handler set for CallToolRequestSchema: the switch inside the try
\* block, with the catch block around it
CallTool(name, args, elapsedOf) ==
  catchError(
    CASE name = "validate_mermaid" -> handleValidateMermaid(args, elapsedOf[1])
      [] name = "validate_mermaid_batch" -> handleValidateBatch(args, elapsedOf)
      [] name = "get_mermaid_info" -> handleGetInfo
      [] name = "mermaid_realtime_validate" -> handleRealtimeValidate(args, elapsedOf[1])
      [] OTHER -> McpError("MethodNotFound", "Unknown tool: " \o name))

\* new MermaidMCPServer(): this.validator = new MermaidValidator(), the
\* class imported from mermaid-validator-flexible.js
ServerInit ==
  /\ cls = Flexible
  /\ isInitialized = TRUE
  /\ initPromise = "undefined"
  /\ patterns = initializePatterns[cls]
  /\ served = 0
  /\ lastOp = "none"
  /\ input = Undefined
  /\ result = NoResult
  /\ pc = "idle"
  /\ diagrams = << >>
  /\ i = 0
  /\ results = << >>
  /\ calls = << >>
  /\ initializeCalls = 0
  /\ request = NoResult
  /\ response = NoResult

\* a CallTool request is handled, from the destructuring of its params to
\* the return or the throw of the handler
CallToolRequest ==
  /\ \E name \in ToolNames, args \in ToolArguments, elapsedOf \in [1..2 -> 0..MaxElapsed] :
       /\ request' = [name |-> name, arguments |-> args]
       /\ response' = CallTool(name, args, elapsedOf)
  /\ UNCHANGED << cls, isInitialized, initPromise, patterns, served, lastOp, input, result,
                  pc, diagrams, i, results, calls, initializeCalls >>

ServerSpec == ServerInit /\ [][CallToolRequest]_vars

(***************************************************************************)
(* Properties of the tool dispatch (ServerSpec).                           *)
(***************************************************************************)
\* a request has been answered
Answered == request # NoResult

\* C29: a request that names none of the four tools is answered with an
\* McpError of code MethodNotFound and message 'Unknown tool: <name>'; a
\* failure inside the handler of a known tool is answered with an McpError
\* of code InternalError.
C29_UnknownToolIsMethodNotFound ==
  Answered =>
    IF request.name \in KnownTools
    THEN isThrown(response) => response.code = "InternalError"
    ELSE /\ isThrown(response)
         /\ response.code = "MethodNotFound"
         /\ response.message = "Unknown tool: " \o request.name

\* the validation object inside the text of a tool result
ValidationOf(answer) == answer.content[Len(answer.content)].text.json

\* C30: validate_mermaid with a diagramCode that is null, missing or the
\* empty string returns a tool result, not a failure, whose validation has
\* type "input_error" and elementCount 0, as mermaid_realtime_validate
\* does for the same diagramCode.
C30_BadInputIsAValidationResult ==
  (/\ Answered
   /\ request.name \in { "validate_mermaid", "mermaid_realtime_validate" }
   /\ request.arguments # Undefined
   /\ request.arguments.diagramCode \in { Null, Undefined, Str("") }) =>
    /\ ~isThrown(response)
    /\ LET validation == IF request.name = "validate_mermaid"
                         THEN ValidationOf(response).validation
                         ELSE ValidationOf(response)
       IN /\ validation.type = Str("input_error")
          /\ validation.elementCount = 0
====
